---- MODULE Spec2Model ----
(***************************************************************************)
(* ESP32-MQTT-WOL: the Wake-on-LAN device registry (src/src/wol_manager.c) *)
(* and the continuous ping engine (src/src/ping_manager.c) as state        *)
(* machines.  Tasks are FreeRTOS tasks calling the public functions; every *)
(* function is cut into steps at the places where it takes or gives a      *)
(* mutex, blocks, or touches shared memory without the mutex.              *)
(***************************************************************************)
EXTENDS Integers, Sequences, FiniteSets, TLC

VARIABLES
    initialized,      \* wol_manager.c:18
    device_mutex,     \* wol_manager.c:21, the task holding it or NoTask
    devices,          \* wol_manager.c:16, the whole array, stale slots included
    device_count,     \* wol_manager.c:17
    pc,               \* per task: the place it is at in the function it runs
    arg,              \* per task: the arguments of the call it runs
    loc,              \* per task: the locals i / device / mac[6] of the call
    ret,              \* per task: the value the finished call returned
    mqtt_out,         \* the message handed to mqtt_publish by the last step
    udp_out,          \* the payload handed to sendto by the last step
    recorded,         \* history: per entry of devices, the is_online of the
                      \* last wol_update_device_status applied to it
    ping_targets,         \* ping_manager.c:23
    active_target_count,  \* ping_manager.c:24
    ping_task_handle,     \* ping_manager.c:25, "NULL" or the task created
    ping_cmd_queue,       \* ping_manager.c:26, "NULL" or the queued commands
    ping_mutex,           \* ping_manager.c:27, "NULL", NoTask or the holder
    ping_manager_running, \* ping_manager.c:28
    result_callback,      \* ping_manager.c:29, "NULL" or the function given
    clock,                \* esp_timer_get_time(), microseconds since boot
    ptask,                \* per ping task: its place in ping_task, its locals
    session               \* per ping task: the esp_ping session of its probe

wolvars == <<initialized, device_mutex, devices, device_count, pc, arg, loc,
             ret, mqtt_out, udp_out, recorded>>

pingvars == <<ping_targets, active_target_count, ping_task_handle,
              ping_cmd_queue, ping_mutex, ping_manager_running,
              result_callback, clock, ptask, session>>

vars == <<wolvars, pingvars>>

(***************************************************************************)
(* Bounds of the model.                                                    *)
(***************************************************************************)
MaxLive == 4
MaxNow == 1
MaxPending == 1
MaxProbes == 2
MaxClock == 2

(***************************************************************************)
(* Program constants.                                                      *)
(***************************************************************************)
MAX_DEVICES == 20
NAME_SIZE == 32
IP_SIZE == 16
DESC_SIZE == 64
MAC_LEN == 6
WOL_PORT == 9
PING_MAX_TARGETS == 10
PING_MAX_IP_LEN == 16
PING_DEFAULT_INTERVAL == 5000
PING_DEFAULT_TIMEOUT == 3000
PING_DEFAULT_COUNT == 1
PING_QUEUE_SIZE == 10

\* The application tasks that call the public functions, the task of the
\* esp_ping session that runs the ping callbacks, and the ping tasks that
\* ping_manager_init creates.
Tasks == {"t1", "t2"}
SessionTask == "esp_ping"
Callers == Tasks \cup {SessionTask}
PTasks == {"p1"}
NoTask == "none"
Null == <<"NULL">>

Min(a, b) == IF a < b THEN a ELSE b

\* strncpy(dst, src, n) into a zeroed or fully padded buffer of n + 1 bytes:
\* the first n bytes of src, the rest of dst is NUL.
Strncpy(src, n) == SubSeq(src, 1, Min(Len(src), n))

\* strcmp(a, b) == 0
StrEq(a, b) == a = b

\* The names, addresses and descriptions of wol_load_device_config.
Server1 == <<"s", "e", "r", "v", "e", "r", "1">>
Desktop1 == <<"d", "e", "s", "k", "t", "o", "p", "1">>
Nas1 == <<"n", "a", "s", "1">>
IpServer1 == <<"1", "9", "2", ".", "1", "6", "8", ".", "0", ".", "1", "1", "1">>
IpDesktop1 == <<"1", "9", "2", ".", "1", "6", "8", ".", "0", ".", "1", "1", "2">>
IpNas1 == <<"1", "9", "2", ".", "1", "6", "8", ".", "0", ".", "2">>
Mac1 == <<192, 24, 80, 172, 225, 165>>
Mac2 == <<0, 80, 86, 171, 205, 239>>
DescServer1 == <<"Main Server">>
DescDesktop1 == <<"Development Desktop">>
DescNas1 == <<"Network Attached Storage">>

\* Inputs of the calls: a name that fills the name buffer and one that does
\* not fit it, an address that a caller may give instead of the configured.
X8 == <<"x", "x", "x", "x", "x", "x", "x", "x">>
Name31 == X8 \o X8 \o X8 \o SubSeq(X8, 1, 7)
Name32 == X8 \o X8 \o X8 \o X8
IpOther == <<"1", "0", ".", "0", ".", "0", ".", "5">>
ZeroMac == <<0, 0, 0, 0, 0, 0>>

\* memset(devices, 0, sizeof(devices))
ZeroDevice ==
    [name |-> <<>>, ip_address |-> <<>>, mac_address |-> ZeroMac,
     description |-> <<>>, status |-> "UNKNOWN", last_ping_time |-> 0,
     enabled |-> FALSE, wol_port |-> 0]

NoArg == [op |-> "none"]
NoLoc == [i |-> -1, mac |-> ZeroMac]
NoMsg == <<>>

\* The loop "for (i = 0; i < device_count; i++) if (strcmp(devices[i].name,
\* name) == 0)": the first index whose stored name equals name, or -1.
FindDevice(devs, count, name) ==
    IF \E i \in 0..(count - 1) : StrEq(devs[i].name, name)
    THEN CHOOSE i \in 0..(count - 1) :
            /\ StrEq(devs[i].name, name)
            /\ \A j \in 0..(i - 1) : ~StrEq(devs[j].name, name)
    ELSE -1

\* wol_get_device: the pointer &devices[i] as the index i, NULL as -1.
wol_get_device(name) == FindDevice(devices, device_count, name)

wol_get_status_string(status) ==
    CASE status = "ONLINE" -> "online"
      [] status = "OFFLINE" -> "offline"
      [] status = "WAKING" -> "waking"
      [] OTHER -> "unknown"

\* The entry the new-device branch of wol_add_device writes over the slot
\* old: description is written only when the caller gives one.
NewDevice(old, name, ip, mac, desc) ==
    [name |-> Strncpy(name, NAME_SIZE - 1),
     ip_address |-> Strncpy(ip, IP_SIZE - 1),
     mac_address |-> mac,
     description |-> IF desc = Null THEN old.description
                     ELSE Strncpy(desc, DESC_SIZE - 1),
     status |-> "UNKNOWN", last_ping_time |-> 0, enabled |-> TRUE,
     wol_port |-> WOL_PORT]

\* The new-device branch on the array: the registry after it, or the
\* registry as it was when the list is full.
AddNew(devs, count, name, ip, mac, desc) ==
    IF count >= MAX_DEVICES THEN devs
    ELSE [devs EXCEPT ![count] = NewDevice(devs[count], name, ip, mac, desc)]

\* The shift of wol_remove_device from index i on.
ShiftDown(devs, count, i) ==
    [j \in 0..(MAX_DEVICES - 1) |->
        IF j >= i /\ j < count - 1 THEN devs[j + 1] ELSE devs[j]]

\* The history of the entries follows them through the shift; the slot the
\* shift leaves behind the last entry has none.
ShiftRecorded(rec, count, i) ==
    [j \in 0..(MAX_DEVICES - 1) |->
        IF j >= i /\ j < count - 1 THEN rec[j + 1]
        ELSE IF j = count - 1 THEN "none" ELSE rec[j]]

\* The 102 bytes wol_send_packet builds.
MagicPacket(mac) ==
    [k \in 1..(6 + 16 * MAC_LEN) |->
        IF k <= 6 THEN 255 ELSE mac[((k - 7) % MAC_LEN) + 1]]

\* wol_update_device_status line 282 (mutant: the ternary inverted)
NewStatus_Inverted(is_online) == IF is_online THEN "OFFLINE" ELSE "ONLINE"

\* wol_update_device_status line 282
NewStatus(is_online) == IF is_online THEN "ONLINE" ELSE "OFFLINE"

\* wol_update_device_status line 289 (mutant: every result is published)
StatusChanged_Always(old_status, status) == TRUE

\* wol_update_device_status line 289
StatusChanged(old_status, status) == old_status # status

\* wol_wake_device line 235 (mutant: the enabled flag is not looked at)
WakeAllowed_Always(device) == TRUE

\* wol_wake_device line 235
WakeAllowed(device) == device.enabled

\* The copy of wol_wake_device line 246 reads devices[i].mac_address with
\* device_mutex held, but the update branch of wol_add_device writes it at
\* line 68 after it has given the mutex (line 64): the two memcpy run
\* unordered, and every byte read is the old or the new one.
Racing(t, i) ==
    {u \in Callers \ {t} : pc[u] = "add_upd_mac" /\ loc[u].i = i}

MixMac(old, new, S) ==
    [j \in 1..MAC_LEN |-> IF j \in S THEN new[j] ELSE old[j]]

MacReads(t, i) ==
    {devices[i].mac_address} \cup
    UNION {{MixMac(devices[i].mac_address, arg[u].mac, S) :
                S \in SUBSET (1..MAC_LEN)} : u \in Racing(t, i)}

StatusTopic(name) == <<"esp32/device/", name, "/status">>
WakeTopic(name) == <<"esp32/wol/", name, "/status">>

(***************************************************************************)
(* The WoL device registry.                                                *)
(***************************************************************************)
WolInit ==
    /\ initialized = FALSE
    /\ device_mutex = NoTask
    /\ devices = [j \in 0..(MAX_DEVICES - 1) |-> ZeroDevice]
    /\ device_count = 0
    /\ pc = [t \in Callers |-> "idle"]
    /\ arg = [t \in Callers |-> NoArg]
    /\ loc = [t \in Callers |-> NoLoc]
    /\ ret = [t \in Callers |-> "none"]
    /\ mqtt_out = NoMsg
    /\ udp_out = NoMsg
    /\ recorded = [j \in 0..(MAX_DEVICES - 1) |-> "none"]

NoOutput == mqtt_out' = NoMsg /\ udp_out' = NoMsg

\* A call ends: the task holds the returned value until it goes on.
Finish(t, value) ==
    /\ pc' = [pc EXCEPT ![t] = "done"]
    /\ ret' = [ret EXCEPT ![t] = value]

Goto(t, place) ==
    /\ pc' = [pc EXCEPT ![t] = place]
    /\ UNCHANGED ret

\* A task is free to make a call: it runs none, or holds a returned value.
Ready(t) == pc[t] \in {"idle", "done"}

\* wol_load_device_config: the three wol_add_device calls on the cleared list.
LoadedDevices(devs) ==
    LET d1 == AddNew(devs, 0, Server1, IpServer1, Mac1, DescServer1)
        d2 == AddNew(d1, 1, Desktop1, IpDesktop1, Mac2, DescDesktop1)
    IN AddNew(d2, 2, Nas1, IpNas1, Mac1, DescNas1)

\* As WolManagerInit, but without the test of initialized: every call
\* clears the list and loads the configured devices again.
WolManagerInit_Reloads(t) ==
    /\ Ready(t)
    /\ devices' = LoadedDevices([j \in 0..(MAX_DEVICES - 1) |-> ZeroDevice])
    /\ device_count' = 3
    /\ initialized' = TRUE
    /\ Finish(t, "ESP_OK")
    /\ arg' = [arg EXCEPT ![t] = [op |-> "init"]]
    /\ loc' = [loc EXCEPT ![t] = NoLoc]
    /\ NoOutput
    /\ UNCHANGED <<pingvars, device_mutex, recorded>>

\* wol_manager_init, called by the start-up code before any other function.
WolManagerInit(t) ==
    /\ Ready(t)
    /\ IF initialized
       THEN UNCHANGED <<pingvars, initialized, devices, device_count>>
       ELSE /\ devices' = LoadedDevices([j \in 0..(MAX_DEVICES - 1) |-> ZeroDevice])
            /\ device_count' = 3
            /\ initialized' = TRUE
    /\ Finish(t, "ESP_OK")
    /\ arg' = [arg EXCEPT ![t] = [op |-> "init"]]
    /\ loc' = [loc EXCEPT ![t] = NoLoc]
    /\ NoOutput
    /\ UNCHANGED <<pingvars, device_mutex, recorded>>

\* The call of a function that starts with xSemaphoreTake(device_mutex,
\* 1000 ms), up to the point where the take returns pdTRUE.
Call(t, a) ==
    /\ initialized
    /\ Ready(t)
    /\ device_mutex = NoTask
    /\ device_mutex' = t
    /\ pc' = [pc EXCEPT ![t] = "body"]
    /\ arg' = [arg EXCEPT ![t] = a]
    /\ loc' = [loc EXCEPT ![t] = NoLoc]
    /\ ret' = [ret EXCEPT ![t] = "none"]
    /\ NoOutput
    /\ UNCHANGED <<pingvars, initialized, devices, device_count, recorded>>

\* The same call when the take gives up after 1000 ms: another task held
\* the mutex all that time.
CallTimeout(t, a) ==
    /\ initialized
    /\ Ready(t)
    /\ device_mutex \notin {NoTask, t}
    /\ arg' = [arg EXCEPT ![t] = a]
    /\ loc' = [loc EXCEPT ![t] = NoLoc]
    /\ Finish(t, "ESP_ERR_TIMEOUT")
    /\ NoOutput
    /\ UNCHANGED <<pingvars, initialized, device_mutex, devices, device_count, recorded>>

AddArg(name, ip, mac, desc) ==
    [op |-> "add", name |-> name, ip |-> ip, mac |-> mac, desc |-> desc]
RemoveArg(name) == [op |-> "remove", name |-> name]
WakeArg(name) == [op |-> "wake", name |-> name]
UpdateArg(name, is_online) ==
    [op |-> "update", name |-> name, is_online |-> is_online]
SetEnabledArg(name, enabled) ==
    [op |-> "set_enabled", name |-> name, enabled |-> enabled]

CallAdd(t, name, ip, mac, desc) ==
    /\ device_count < MaxLive
    /\ Call(t, AddArg(name, ip, mac, desc))

CallRemove(t, name) == Call(t, RemoveArg(name))

CallWake(t, name) == Call(t, WakeArg(name))

CallUpdate(t, name, is_online) == Call(t, UpdateArg(name, is_online))

CallSetEnabled(t, name, enabled) == Call(t, SetEnabledArg(name, enabled))

\* wol_add_device lines 61-97 (mutant: the test of line 77 is
\* device_count > MAX_DEVICES)
AddBody_OffByOne(t) ==
    /\ pc[t] = "body" /\ arg[t].op = "add"
    /\ LET i == FindDevice(devices, device_count, arg[t].name) IN
       IF i # -1
       THEN /\ loc' = [loc EXCEPT ![t].i = i]
            /\ Goto(t, "add_upd_ip")
            /\ UNCHANGED <<devices, device_count, recorded>>
       ELSE IF device_count > MAX_DEVICES
       THEN /\ Finish(t, "ESP_ERR_NO_MEM")
            /\ UNCHANGED <<devices, device_count, loc, recorded>>
       ELSE /\ devices' = AddNew(devices, device_count, arg[t].name, arg[t].ip,
                                 arg[t].mac, arg[t].desc)
            /\ device_count' = device_count + 1
            /\ recorded' = [recorded EXCEPT ![device_count] = "none"]
            /\ Goto(t, "add_ping")
            /\ UNCHANGED loc
    /\ device_mutex' = NoTask
    /\ NoOutput
    /\ UNCHANGED <<pingvars, initialized, arg>>

\* wol_add_device, lines 61-97: the search and the new-device branch, with
\* the mutex; the update branch gives the mutex first and writes afterwards.
AddBody(t) ==
    /\ pc[t] = "body" /\ arg[t].op = "add"
    /\ LET i == FindDevice(devices, device_count, arg[t].name) IN
       IF i # -1
       THEN /\ loc' = [loc EXCEPT ![t].i = i]
            /\ Goto(t, "add_upd_ip")
            /\ UNCHANGED <<devices, device_count, recorded>>
       ELSE IF device_count >= MAX_DEVICES
       THEN /\ Finish(t, "ESP_ERR_NO_MEM")
            /\ UNCHANGED <<devices, device_count, loc, recorded>>
       ELSE /\ devices' = AddNew(devices, device_count, arg[t].name, arg[t].ip,
                                 arg[t].mac, arg[t].desc)
            /\ device_count' = device_count + 1
            /\ recorded' = [recorded EXCEPT ![device_count] = "none"]
            /\ Goto(t, "add_ping")
            /\ UNCHANGED loc
    /\ device_mutex' = NoTask
    /\ NoOutput
    /\ UNCHANGED <<pingvars, initialized, arg>>

\* line 67 (mutant: the address of an existing device is not updated)
AddUpdIp_Forgotten(t) ==
    /\ pc[t] = "add_upd_ip"
    /\ Goto(t, "add_upd_mac")
    /\ NoOutput
    /\ UNCHANGED <<pingvars, initialized, device_mutex, devices, device_count, arg, loc, recorded>>

\* line 67, without the mutex
AddUpdIp(t) ==
    /\ pc[t] = "add_upd_ip"
    /\ devices' = [devices EXCEPT ![loc[t].i].ip_address =
                        Strncpy(arg[t].ip, IP_SIZE - 1)]
    /\ Goto(t, "add_upd_mac")
    /\ NoOutput
    /\ UNCHANGED <<pingvars, initialized, device_mutex, device_count, arg, loc, recorded>>

\* line 68, without the mutex
AddUpdMac(t) ==
    /\ pc[t] = "add_upd_mac"
    /\ devices' = [devices EXCEPT ![loc[t].i].mac_address = arg[t].mac]
    /\ Goto(t, "add_upd_desc")
    /\ NoOutput
    /\ UNCHANGED <<pingvars, initialized, device_mutex, device_count, arg, loc, recorded>>

\* lines 69-72, without the mutex
AddUpdDesc(t) ==
    /\ pc[t] = "add_upd_desc"
    /\ devices' = IF arg[t].desc = Null THEN devices
                  ELSE [devices EXCEPT ![loc[t].i].description =
                            Strncpy(arg[t].desc, DESC_SIZE - 1)]
    /\ Finish(t, "ESP_OK")
    /\ NoOutput
    /\ UNCHANGED <<pingvars, initialized, device_mutex, device_count, arg, loc, recorded>>

\* wol_remove_device, lines 120-138
RemoveBody(t) ==
    /\ pc[t] = "body" /\ arg[t].op = "remove"
    /\ LET i == FindDevice(devices, device_count, arg[t].name) IN
       IF i # -1
       THEN /\ devices' = ShiftDown(devices, device_count, i)
            /\ device_count' = device_count - 1
            /\ recorded' = ShiftRecorded(recorded, device_count, i)
            /\ Goto(t, "rm_ping")
       ELSE /\ Finish(t, "ESP_ERR_NOT_FOUND")
            /\ UNCHANGED <<devices, device_count, recorded>>
    /\ device_mutex' = NoTask
    /\ NoOutput
    /\ UNCHANGED <<pingvars, initialized, arg, loc>>

\* wol_wake_device, lines 220-248 (mutant: the mutex is not given at line
\* 248, the packet is sent with it held)
WakeBody_KeepsMutex(t) ==
    /\ pc[t] = "body" /\ arg[t].op = "wake"
    /\ LET i == FindDevice(devices, device_count, arg[t].name) IN
       IF i = -1
       THEN /\ Finish(t, "ESP_ERR_NOT_FOUND")
            /\ device_mutex' = NoTask
            /\ UNCHANGED <<devices, loc>>
       ELSE IF ~WakeAllowed(devices[i])
       THEN /\ Finish(t, "ESP_ERR_INVALID_STATE")
            /\ device_mutex' = NoTask
            /\ UNCHANGED <<devices, loc>>
       ELSE /\ devices' = [devices EXCEPT ![i].status = "WAKING"]
            /\ \E mac \in MacReads(t, i) :
                    loc' = [loc EXCEPT ![t] = [i |-> i, mac |-> mac]]
            /\ Goto(t, "wake_send")
            /\ UNCHANGED device_mutex
    /\ NoOutput
    /\ UNCHANGED <<pingvars, initialized, device_count, arg, recorded>>

\* wol_wake_device, lines 220-248
WakeBody(t) ==
    /\ pc[t] = "body" /\ arg[t].op = "wake"
    /\ LET i == FindDevice(devices, device_count, arg[t].name) IN
       IF i = -1
       THEN /\ Finish(t, "ESP_ERR_NOT_FOUND")
            /\ UNCHANGED <<devices, loc>>
       ELSE IF ~WakeAllowed(devices[i])
       THEN /\ Finish(t, "ESP_ERR_INVALID_STATE")
            /\ UNCHANGED <<devices, loc>>
       ELSE /\ devices' = [devices EXCEPT ![i].status = "WAKING"]
            /\ \E mac \in MacReads(t, i) :
                    loc' = [loc EXCEPT ![t] = [i |-> i, mac |-> mac]]
            /\ Goto(t, "wake_send")
    /\ device_mutex' = NoTask
    /\ NoOutput
    /\ UNCHANGED <<pingvars, initialized, device_count, arg, recorded>>

\* As WakeSend, but a failed send restores the status the device had
\* before the wake-up was tried (Unknown, the status of a new device).
WakeSend_RestoresStatus(t, sent) ==
    /\ pc[t] = "wake_send"
    /\ IF sent
       THEN /\ udp_out' = MagicPacket(loc[t].mac)
            /\ Goto(t, "wake_pub")
            /\ UNCHANGED devices
       ELSE /\ udp_out' = NoMsg
            /\ Finish(t, "ESP_FAIL")
            /\ devices' = [devices EXCEPT ![loc[t].i].status = "UNKNOWN"]
    /\ mqtt_out' = NoMsg
    /\ loc' = [loc EXCEPT ![t].mac = ZeroMac]
    /\ UNCHANGED <<pingvars, initialized, device_mutex, device_count, arg, recorded>>

\* wol_wake_device line 251: wol_send_packet(mac, NULL); sent tells whether
\* socket, setsockopt and sendto all succeeded.  The local mac[6] is not
\* read again after the call.
WakeSend(t, sent) ==
    /\ pc[t] = "wake_send"
    /\ IF sent
       THEN /\ udp_out' = MagicPacket(loc[t].mac)
            /\ Goto(t, "wake_pub")
       ELSE /\ udp_out' = NoMsg
            /\ Finish(t, "ESP_FAIL")
    /\ mqtt_out' = NoMsg
    /\ loc' = [loc EXCEPT ![t].mac = ZeroMac]
    /\ UNCHANGED <<pingvars, initialized, device_mutex, devices, device_count, arg, recorded>>

\* wol_wake_device lines 253-265
WakePub(t) ==
    /\ pc[t] = "wake_pub"
    /\ mqtt_out' = <<WakeTopic(arg[t].name), "wake_sent">>
    /\ udp_out' = NoMsg
    /\ Finish(t, "ESP_OK")
    /\ UNCHANGED <<pingvars, initialized, device_mutex, devices, device_count, arg, loc, recorded>>

\* wol_update_device_status, lines 278-289 and 309-310; now is
\* xTaskGetTickCount() * portTICK_PERIOD_MS / 1000.
UpdateBody(t, now) ==
    /\ pc[t] = "body" /\ arg[t].op = "update"
    /\ LET i == FindDevice(devices, device_count, arg[t].name)
           status == NewStatus(arg[t].is_online)
       IN
       IF i = -1
       THEN /\ Finish(t, "ESP_ERR_NOT_FOUND")
            /\ device_mutex' = NoTask
            /\ UNCHANGED <<devices, loc, recorded>>
       ELSE /\ recorded' = [recorded EXCEPT ![i] =
                                IF arg[t].is_online THEN "alive" ELSE "dead"]
            /\ devices' = [devices EXCEPT
                    ![i].status = status,
                    ![i].last_ping_time = IF arg[t].is_online THEN now ELSE @]
            /\ loc' = [loc EXCEPT ![t].i = i]
            /\ IF StatusChanged(devices[i].status, status)
               THEN /\ Goto(t, "upd_pub")
                    /\ UNCHANGED device_mutex
               ELSE /\ Finish(t, "ESP_OK")
                    /\ device_mutex' = NoTask
    /\ NoOutput
    /\ UNCHANGED <<pingvars, initialized, device_count, arg>>

\* wol_update_device_status, lines 290-305: the publish, the mutex still held
UpdatePub(t) ==
    /\ pc[t] = "upd_pub"
    /\ LET d == devices[loc[t].i] IN
       mqtt_out' = <<StatusTopic(arg[t].name), wol_get_status_string(d.status),
                     d.ip_address, d.last_ping_time>>
    /\ udp_out' = NoMsg
    /\ device_mutex' = NoTask
    /\ Finish(t, "ESP_OK")
    /\ UNCHANGED <<pingvars, initialized, devices, device_count, arg, loc, recorded>>

\* wol_set_device_enabled, lines 346-356
SetEnabledBody(t) ==
    /\ pc[t] = "body" /\ arg[t].op = "set_enabled"
    /\ LET i == FindDevice(devices, device_count, arg[t].name) IN
       IF i # -1
       THEN /\ devices' = [devices EXCEPT ![i].enabled = arg[t].enabled]
            /\ Finish(t, "ESP_OK")
       ELSE /\ Finish(t, "ESP_ERR_NOT_FOUND")
            /\ UNCHANGED devices
    /\ device_mutex' = NoTask
    /\ NoOutput
    /\ UNCHANGED <<pingvars, initialized, device_count, arg, loc, recorded>>

\* The command strings wol_handle_mqtt_command compares with.
VerbOn == <<"o", "n">>
VerbWake == <<"w", "a", "k", "e">>
VerbStatus == <<"s", "t", "a", "t", "u", "s">>
VerbEnable == <<"e", "n", "a", "b", "l", "e">>
VerbDisable == <<"d", "i", "s", "a", "b", "l", "e">>

\* wol_handle_mqtt_command (mutant: the command is compared by its first
\* character only)
CommandKind_FirstChar(command) ==
    CASE command = <<>> -> "unknown"
      [] Head(command) \in {"o", "w"} -> "wake"
      [] Head(command) = "s" -> "status"
      [] Head(command) = "e" -> "enable"
      [] Head(command) = "d" -> "disable"
      [] OTHER -> "unknown"

\* wol_handle_mqtt_command lines 377-402: the chain of strcmp
CommandKind(command) ==
    CASE StrEq(command, VerbOn) \/ StrEq(command, VerbWake) -> "wake"
      [] StrEq(command, VerbStatus) -> "status"
      [] StrEq(command, VerbEnable) -> "enable"
      [] StrEq(command, VerbDisable) -> "disable"
      [] OTHER -> "unknown"

\* The arguments a of the function called, with the command that led there.
ByCommand(a, command) == a @@ [command |-> command]

\* wol_handle_mqtt_command lines 371-373 and 401-402: a NULL argument or a
\* command that matches no strcmp.
CommandInvalid(t, device_name, command) ==
    /\ Ready(t)
    /\ arg' = [arg EXCEPT ![t] =
                [op |-> "command", name |-> device_name, command |-> command]]
    /\ loc' = [loc EXCEPT ![t] = NoLoc]
    /\ Finish(t, "ESP_ERR_INVALID_ARG")
    /\ NoOutput
    /\ UNCHANGED <<pingvars, initialized, device_mutex, devices, device_count,
                   recorded>>

\* wol_handle_mqtt_command line 380 and wol_get_device lines 319-325: the
\* search, made without device_mutex; device points into devices.
StatusGet(t, device_name) ==
    /\ Ready(t)
    /\ arg' = [arg EXCEPT ![t] =
                [op |-> "status", name |-> device_name, command |-> VerbStatus]]
    /\ LET i == wol_get_device(device_name) IN
       IF i = -1
       THEN /\ loc' = [loc EXCEPT ![t] = NoLoc]
            /\ Finish(t, "ESP_ERR_NOT_FOUND")
       ELSE /\ loc' = [loc EXCEPT ![t] = [i |-> i, mac |-> ZeroMac]]
            /\ pc' = [pc EXCEPT ![t] = "status_fmt"]
            /\ ret' = [ret EXCEPT ![t] = "none"]
    /\ NoOutput
    /\ UNCHANGED <<pingvars, initialized, device_mutex, devices, device_count,
                   recorded>>

\* wol_handle_mqtt_command lines 384-388: snprintf reads the fields through
\* device one after the other, device_mutex not taken; here name and status.
StatusFormat(t) ==
    /\ pc[t] = "status_fmt"
    /\ LET d == devices[loc[t].i] IN
       loc' = [loc EXCEPT ![t] =
                [i |-> loc[t].i, mac |-> ZeroMac,
                 read |-> <<d.name, wol_get_status_string(d.status)>>]]
    /\ Goto(t, "status_pub")
    /\ NoOutput
    /\ UNCHANGED <<pingvars, initialized, device_mutex, devices, device_count,
                   arg, recorded>>

\* wol_handle_mqtt_command lines 386-390: ip_address, enabled and
\* last_ping_time are read, the message is published.
StatusPub(t) ==
    /\ pc[t] = "status_pub"
    /\ LET d == devices[loc[t].i] IN
       mqtt_out' = <<StatusTopic(arg[t].name)>> \o loc[t].read
                        \o <<d.ip_address, d.enabled, d.last_ping_time>>
    /\ udp_out' = NoMsg
    /\ loc' = [loc EXCEPT ![t] = NoLoc]
    /\ Finish(t, "ESP_OK")
    /\ UNCHANGED <<pingvars, initialized, device_mutex, devices, device_count,
                   arg, recorded>>

\* wol_handle_mqtt_command, up to the first step of the function it calls
wol_handle_mqtt_command(t, device_name, command) ==
    LET kind == IF device_name = Null \/ command = Null THEN "unknown"
                ELSE CommandKind(command)
    IN \/ kind = "wake" /\ Call(t, ByCommand(WakeArg(device_name), command))
       \/ kind = "status" /\ StatusGet(t, device_name)
       \/ /\ kind = "enable"
          /\ Call(t, ByCommand(SetEnabledArg(device_name, TRUE), command))
       \/ /\ kind = "disable"
          /\ Call(t, ByCommand(SetEnabledArg(device_name, FALSE), command))
       \/ kind = "unknown" /\ CommandInvalid(t, device_name, command)

\* wol_add_device line 105: ping_manager_add_device(name, ip_address), a
\* function no source file of the repository defines.
AddPing(t) ==
    /\ pc[t] = "add_ping"
    /\ Finish(t, "ESP_OK")
    /\ NoOutput
    /\ UNCHANGED <<pingvars, initialized, device_mutex, devices, device_count, arg, loc, recorded>>

\* wol_remove_device line 131: ping_manager_remove_device(name), likewise.
RemovePing(t) ==
    /\ pc[t] = "rm_ping"
    /\ Finish(t, "ESP_OK")
    /\ NoOutput
    /\ UNCHANGED <<pingvars, initialized, device_mutex, devices, device_count, arg, loc, recorded>>

(***************************************************************************)
(* The ping engine: registry of targets, command queue, ping task.         *)
(***************************************************************************)
Slots == 0..(PING_MAX_TARGETS - 1)

\* memset(&ping_targets[i], 0, sizeof(ping_target_t))
ZeroTarget ==
    [ip_address |-> <<>>, interval_ms |-> 0, timeout_ms |-> 0, count |-> 0,
     enabled |-> FALSE, last_ping_time |-> 0, success_count |-> 0,
     fail_count |-> 0]

ZeroTargets == [k \in Slots |-> ZeroTarget]

NoCmd == [cmd_type |-> "NONE", target |-> ZeroTarget, target_index |-> 0]
NoQueue == [handle |-> "NULL", items |-> <<>>]
NoPingTask == [pc |-> "none", cmd |-> NoCmd, i |-> 0, current_time |-> 0]
NoSession ==
    [state |-> "none", target |-> 0, addr |-> <<>>, count |-> 0, seq |-> 0,
     received |-> 0, success |-> FALSE, response_time |-> 0, fn |-> "NULL",
     result |-> <<>>]

\* The length of one model clock step and the last instant of the model.
TickUs == PING_DEFAULT_INTERVAL * 1000
Horizon == MaxClock * TickUs

Digits == {"0", "1", "2", "3", "4", "5", "6", "7", "8", "9"}
IsDigit(c) == c \in Digits
DigitValue(c) ==
    CASE c = "0" -> 0 [] c = "1" -> 1 [] c = "2" -> 2 [] c = "3" -> 3
      [] c = "4" -> 4 [] c = "5" -> 5 [] c = "6" -> 6 [] c = "7" -> 7
      [] c = "8" -> 8 [] c = "9" -> 9

\* The value of a decimal part after one more digit c; -1 stands for a part
\* without a digit so far.
NextValue(cur, c) ==
    IF cur < 0 THEN DigitValue(c) ELSE 10 * cur + DigitValue(c)

\* ip4addr_aton from character k of s on, with the octets read so far and
\* the value of the part being read: the four octets, or <<>> where the
\* call returns 0.
RECURSIVE AtonFrom(_, _, _, _)
AtonFrom(s, k, octets, cur) ==
    IF k > Len(s)
    THEN IF cur >= 0 /\ Len(octets) = 3 THEN Append(octets, cur) ELSE <<>>
    ELSE IF s[k] = "."
    THEN IF cur < 0 \/ Len(octets) >= 3 THEN <<>>
         ELSE AtonFrom(s, k + 1, Append(octets, cur), -1)
    ELSE IF ~IsDigit(s[k]) \/ cur = 0 \/ NextValue(cur, s[k]) > 255 THEN <<>>
    ELSE AtonFrom(s, k + 1, octets, NextValue(cur, s[k]))

\* ipaddr_aton on the four-part decimal form a.b.c.d.  (The one- to
\* three-part, octal and hex forms lwIP also reads are not among the
\* addresses of the model; they count as not parsed.)
ipaddr_aton(s) == AtonFrom(s, 1, <<>>, -1)

find_free_target_slot(targets) ==
    IF \E k \in Slots : targets[k].ip_address = <<>>
    THEN CHOOSE k \in Slots :
            /\ targets[k].ip_address = <<>>
            /\ \A j \in 0..(k - 1) : targets[j].ip_address # <<>>
    ELSE -1

find_target_by_ip(targets, ip) ==
    IF \E k \in Slots : StrEq(targets[k].ip_address, ip)
    THEN CHOOSE k \in Slots :
            /\ StrEq(targets[k].ip_address, ip)
            /\ \A j \in 0..(k - 1) : ~StrEq(targets[j].ip_address, ip)
    ELSE -1

\* The commands the public functions build (fields a designated initialiser
\* leaves out are zero).
AddCmd(ip, interval_ms, timeout_ms, count) ==
    [cmd_type |-> "ADD_TARGET", target_index |-> 0,
     target |->
        [ip_address |-> Strncpy(ip, PING_MAX_IP_LEN - 1),
         interval_ms |-> IF interval_ms > 0 THEN interval_ms
                         ELSE PING_DEFAULT_INTERVAL,
         timeout_ms |-> IF timeout_ms > 0 THEN timeout_ms
                        ELSE PING_DEFAULT_TIMEOUT,
         count |-> IF count > 0 THEN count ELSE PING_DEFAULT_COUNT,
         enabled |-> TRUE, last_ping_time |-> 0, success_count |-> 0,
         fail_count |-> 0]]

RemoveCmd(target_index) ==
    [cmd_type |-> "REMOVE_TARGET", target_index |-> target_index,
     target |-> ZeroTarget]

UpdateCmd(target_index, interval_ms, timeout_ms, count) ==
    [cmd_type |-> "UPDATE_TARGET", target_index |-> target_index,
     target |-> [ZeroTarget EXCEPT !.interval_ms = interval_ms,
                                   !.timeout_ms = timeout_ms,
                                   !.count = count]]

EnableCmd(target_index, enabled) ==
    [cmd_type |-> IF enabled THEN "ENABLE_TARGET" ELSE "DISABLE_TARGET",
     target_index |-> target_index, target |-> ZeroTarget]

StopCmd == [cmd_type |-> "STOP_ALL", target_index |-> 0, target |-> ZeroTarget]

ValidIndex(target_index) ==
    target_index >= 0 /\ target_index < PING_MAX_TARGETS

\* execute_ping_command, case PING_CMD_ADD_TARGET
ExecAdd(targets, cmd) ==
    LET slot == find_free_target_slot(targets) IN
    IF slot >= 0
    THEN [targets EXCEPT ![slot] =
            [cmd.target EXCEPT !.enabled = TRUE, !.last_ping_time = 0,
                               !.success_count = 0, !.fail_count = 0]]
    ELSE targets

\* execute_ping_command, case PING_CMD_REMOVE_TARGET
ExecRemove(targets, cmd) ==
    IF ValidIndex(cmd.target_index)
       /\ targets[cmd.target_index].ip_address # <<>>
    THEN [targets EXCEPT ![cmd.target_index] = ZeroTarget]
    ELSE targets

\* case PING_CMD_UPDATE_TARGET (mutant: the update starts the counts anew)
ExecUpdate_ResetsCounts(targets, cmd) ==
    IF ValidIndex(cmd.target_index)
       /\ targets[cmd.target_index].ip_address # <<>>
    THEN [targets EXCEPT
            ![cmd.target_index].interval_ms =
                IF cmd.target.interval_ms > 0 THEN cmd.target.interval_ms ELSE @,
            ![cmd.target_index].timeout_ms =
                IF cmd.target.timeout_ms > 0 THEN cmd.target.timeout_ms ELSE @,
            ![cmd.target_index].count =
                IF cmd.target.count > 0 THEN cmd.target.count ELSE @,
            ![cmd.target_index].success_count = 0,
            ![cmd.target_index].fail_count = 0]
    ELSE targets

\* execute_ping_command, case PING_CMD_UPDATE_TARGET
ExecUpdate(targets, cmd) ==
    IF ValidIndex(cmd.target_index)
       /\ targets[cmd.target_index].ip_address # <<>>
    THEN [targets EXCEPT
            ![cmd.target_index].interval_ms =
                IF cmd.target.interval_ms > 0 THEN cmd.target.interval_ms ELSE @,
            ![cmd.target_index].timeout_ms =
                IF cmd.target.timeout_ms > 0 THEN cmd.target.timeout_ms ELSE @,
            ![cmd.target_index].count =
                IF cmd.target.count > 0 THEN cmd.target.count ELSE @]
    ELSE targets

\* execute_ping_command, cases PING_CMD_ENABLE_TARGET / DISABLE_TARGET
ExecEnable(targets, cmd) ==
    IF ValidIndex(cmd.target_index)
    THEN [targets EXCEPT ![cmd.target_index].enabled =
            (cmd.cmd_type = "ENABLE_TARGET")]
    ELSE targets

\* execute_ping_command, the switch: the array after the command
ExecTargets(targets, cmd) ==
    CASE cmd.cmd_type = "ADD_TARGET" -> ExecAdd(targets, cmd)
      [] cmd.cmd_type = "REMOVE_TARGET" -> ExecRemove(targets, cmd)
      [] cmd.cmd_type = "UPDATE_TARGET" -> ExecUpdate(targets, cmd)
      [] cmd.cmd_type \in {"ENABLE_TARGET", "DISABLE_TARGET"} ->
            ExecEnable(targets, cmd)
      [] OTHER -> targets

\* execute_ping_command, the switch: active_target_count after the command
ExecCount(targets, count, cmd) ==
    CASE cmd.cmd_type = "ADD_TARGET" /\ find_free_target_slot(targets) >= 0 ->
            count + 1
      [] /\ cmd.cmd_type = "REMOVE_TARGET" /\ ValidIndex(cmd.target_index)
         /\ targets[cmd.target_index].ip_address # <<>> -> count - 1
      [] OTHER -> count

\* ping_task line 203 (mutant: no target is ever due)
Due_Never(target, current_time) == FALSE

\* interval_ms * 1000 as line 203 computes it, in uint32_t: the product
\* modulo 2^32, as its high and its low 16 bits.
WrappedHigh(interval_ms) ==
    ((interval_ms \div 65536) * 1000
        + ((interval_ms % 65536) * 1000) \div 65536) % 65536

WrappedLow(interval_ms) == ((interval_ms % 65536) * 1000) % 65536

\* ping_task lines 202-203: time_since_last >= interval_ms * 1000, with
\* time_since_last the uint64_t difference (huge when last_ping_time is
\* the later time) and the product a uint32_t.
Due(target, current_time) ==
    \/ current_time < target.last_ping_time
    \/ (current_time - target.last_ping_time) \div 65536
            > WrappedHigh(target.interval_ms)
    \/ /\ (current_time - target.last_ping_time) \div 65536
            = WrappedHigh(target.interval_ms)
       /\ (current_time - target.last_ping_time) % 65536
            >= WrappedLow(target.interval_ms)

\* ping_task lines 194-207 (mutant: the loop does not test enabled)
NextProbed_IgnoresEnabled(targets, i, current_time) ==
    LET probed == {k \in Slots :
                     /\ k >= i
                     /\ targets[k].ip_address # <<>>
                     /\ Due(targets[k], current_time)}
    IN IF probed = {} THEN PING_MAX_TARGETS
       ELSE CHOOSE k \in probed : \A j \in probed : k <= j

\* ping_task lines 194-207: the next slot from i on that the loop probes,
\* PING_MAX_TARGETS when it reaches the end of the array.
NextProbed(targets, i, current_time) ==
    LET probed == {k \in Slots :
                     /\ k >= i
                     /\ targets[k].enabled
                     /\ targets[k].ip_address # <<>>
                     /\ Due(targets[k], current_time)}
    IN IF probed = {} THEN PING_MAX_TARGETS
       ELSE CHOOSE k \in probed : \A j \in probed : k <= j

PingZero ==
    /\ ping_targets = ZeroTargets
    /\ active_target_count = 0
    /\ ping_task_handle = "NULL"
    /\ ping_cmd_queue = NoQueue
    /\ ping_mutex = "NULL"
    /\ ping_manager_running = FALSE
    /\ result_callback = "NULL"
    /\ clock = 0
    /\ ptask = [p \in PTasks |-> NoPingTask]
    /\ session = [p \in PTasks |-> NoSession]

\* Steps of the ping engine leave the WoL registry alone.
WolSame ==
    /\ NoOutput
    /\ UNCHANGED <<initialized, device_mutex, devices, device_count, recorded>>

CallersSame == UNCHANGED <<pc, arg, loc, ret>>

\* A FreeRTOS call on a handle that ping_manager_deinit has set to NULL
\* fails its configASSERT (or faults on the NULL pointer): the chip panics
\* and restarts, the program is in its start state again.
Reboot ==
    /\ initialized' = FALSE
    /\ device_mutex' = NoTask
    /\ devices' = [j \in 0..(MAX_DEVICES - 1) |-> ZeroDevice]
    /\ device_count' = 0
    /\ pc' = [t \in Callers |-> "idle"]
    /\ arg' = [t \in Callers |-> NoArg]
    /\ loc' = [t \in Callers |-> NoLoc]
    /\ ret' = [t \in Callers |-> "none"]
    /\ mqtt_out' = NoMsg
    /\ udp_out' = NoMsg
    /\ recorded' = [j \in 0..(MAX_DEVICES - 1) |-> "none"]
    /\ ping_targets' = ZeroTargets
    /\ active_target_count' = 0
    /\ ping_task_handle' = "NULL"
    /\ ping_cmd_queue' = NoQueue
    /\ ping_mutex' = "NULL"
    /\ ping_manager_running' = FALSE
    /\ result_callback' = "NULL"
    /\ clock' = 0
    /\ ptask' = [p \in PTasks |-> NoPingTask]
    /\ session' = [p \in PTasks |-> NoSession]

\* A caller starts a function of the ping engine.
PingCall(t, a) ==
    /\ Ready(t)
    /\ arg' = [arg EXCEPT ![t] = a]

\* A function that returns an index: the index is in loc[t].i.
FinishIndex(t, index) ==
    /\ loc' = [loc EXCEPT ![t] = [NoLoc EXCEPT !.i = index]]
    /\ Finish(t, "index")

\* xQueueSend (mutant: the queue takes a command whatever it holds)
Enqueue_NoLimit(cmd) ==
    ping_cmd_queue' = [ping_cmd_queue EXCEPT !.items = Append(@, cmd)]

\* xQueueSend(ping_cmd_queue, &cmd, 1000 ms) that finds room in the queue
\* of PING_QUEUE_SIZE commands (line 342) within its wait.
Enqueue(cmd) ==
    /\ Len(ping_cmd_queue.items) < PING_QUEUE_SIZE
    /\ ping_cmd_queue' = [ping_cmd_queue EXCEPT !.items = Append(@, cmd)]

\* xQueueSend that returns errQUEUE_FULL: the queue was full for the
\* 1000 ms of the wait.
QueueStaysFull == Len(ping_cmd_queue.items) >= PING_QUEUE_SIZE

\* ping_manager_init: the mutex, the queue and the task are created; a ping
\* task of an earlier run that has not ended keeps its place.
PingManagerInit(t, callback) ==
    /\ PingCall(t, [op |-> "ping_init", callback |-> callback])
    /\ loc' = [loc EXCEPT ![t] = NoLoc]
    /\ Finish(t, "ESP_OK")
    /\ IF ping_manager_running
       THEN UNCHANGED pingvars
       ELSE /\ \E p \in PTasks : ptask[p].pc \in {"none", "exited"}
            /\ LET p == CHOOSE q \in PTasks : ptask[q].pc \in {"none", "exited"}
               IN /\ ptask' = [ptask EXCEPT ![p] = [NoPingTask EXCEPT !.pc = "loop"]]
                  /\ ping_task_handle' = p
            /\ ping_targets' = ZeroTargets
            /\ active_target_count' = 0
            /\ result_callback' = callback
            /\ ping_mutex' = NoTask
            /\ ping_cmd_queue' = [handle |-> "queue", items |-> <<>>]
            /\ ping_manager_running' = TRUE
            /\ UNCHANGED <<clock, session>>
    /\ WolSame

\* The objects ping_manager_init creates one after the other.
InitStages == {"mutex", "queue", "task"}

\* ping_manager_init (mutant: line 361 is left out, the flag set at line
\* 349 stays when xTaskCreate fails)
PingManagerInitFails_StillRunning(t, callback, stage) ==
    /\ PingCall(t, [op |-> "ping_init", callback |-> callback])
    /\ loc' = [loc EXCEPT ![t] = NoLoc]
    /\ ~ping_manager_running
    /\ Finish(t, "ESP_FAIL")
    /\ ping_targets' = ZeroTargets
    /\ active_target_count' = 0
    /\ result_callback' = callback
    /\ ping_mutex' = IF stage = "mutex" THEN "NULL" ELSE "deleted"
    /\ ping_cmd_queue' =
            CASE stage = "mutex" -> ping_cmd_queue
              [] stage = "queue" -> NoQueue
              [] stage = "task" -> [handle |-> "deleted", items |-> <<>>]
    /\ ping_manager_running' = (stage = "task")
    /\ UNCHANGED <<ping_task_handle, clock, ptask, session>>
    /\ WolSame

\* ping_manager_init, lines 329-366, when the creation of the mutex, of the
\* queue or of the task fails: what was created before is deleted, the
\* deleted handles are left in ping_mutex and ping_cmd_queue ("deleted"),
\* the flag set at line 349 is cleared at line 361.
PingManagerInitFails(t, callback, stage) ==
    /\ PingCall(t, [op |-> "ping_init", callback |-> callback])
    /\ loc' = [loc EXCEPT ![t] = NoLoc]
    /\ ~ping_manager_running
    /\ Finish(t, "ESP_FAIL")
    /\ ping_targets' = ZeroTargets
    /\ active_target_count' = 0
    /\ result_callback' = callback
    /\ ping_mutex' = IF stage = "mutex" THEN "NULL" ELSE "deleted"
    /\ ping_cmd_queue' =
            CASE stage = "mutex" -> ping_cmd_queue
              [] stage = "queue" -> NoQueue
              [] stage = "task" -> [handle |-> "deleted", items |-> <<>>]
    /\ ping_manager_running' = FALSE
    /\ UNCHANGED <<ping_task_handle, clock, ptask, session>>
    /\ WolSame

\* ping_manager_add_target, lines 374-402
PingAddTarget(t, ip, interval_ms, timeout_ms, count) ==
    /\ PingCall(t, [op |-> "ping_add", ip |-> ip])
    /\ IF ~ping_manager_running
       THEN /\ FinishIndex(t, -1)
            /\ UNCHANGED ping_cmd_queue
       ELSE IF find_target_by_ip(ping_targets, ip) >= 0
       THEN /\ FinishIndex(t, find_target_by_ip(ping_targets, ip))
            /\ UNCHANGED ping_cmd_queue
       ELSE /\ Enqueue(AddCmd(ip, interval_ms, timeout_ms, count))
            /\ loc' = [loc EXCEPT ![t] = NoLoc]
            /\ Goto(t, "padd_wait")
    /\ UNCHANGED <<ping_targets, active_target_count, ping_task_handle,
                   ping_mutex, ping_manager_running, result_callback, clock,
                   ptask, session>>
    /\ WolSame

\* ping_manager_add_target, lines 404-405: after vTaskDelay(100 ms)
PingAddReturn(t) ==
    /\ pc[t] = "padd_wait"
    /\ FinishIndex(t, find_target_by_ip(ping_targets, arg[t].ip))
    /\ UNCHANGED <<pingvars, arg>>
    /\ WolSame

\* ping_manager_add_target, lines 402 and 408-409: the send fails
PingAddTargetFull(t, ip, interval_ms, timeout_ms, count) ==
    /\ PingCall(t, [op |-> "ping_add", ip |-> ip])
    /\ ping_manager_running
    /\ find_target_by_ip(ping_targets, ip) < 0
    /\ QueueStaysFull
    /\ FinishIndex(t, -1)
    /\ UNCHANGED pingvars
    /\ WolSame

\* ping_manager_remove_target, ping_manager_update_target and
\* ping_manager_set_target_enabled: the command is queued, nothing else.
PingSend(t, a, cmd) ==
    /\ PingCall(t, a)
    /\ loc' = [loc EXCEPT ![t] = NoLoc]
    /\ IF ~ping_manager_running
       THEN /\ Finish(t, "ESP_ERR_INVALID_STATE")
            /\ UNCHANGED ping_cmd_queue
       ELSE /\ Enqueue(cmd)
            /\ Finish(t, "ESP_OK")
    /\ UNCHANGED <<ping_targets, active_target_count, ping_task_handle,
                   ping_mutex, ping_manager_running, result_callback, clock,
                   ptask, session>>
    /\ WolSame

PingRemoveTarget(t, target_index) ==
    PingSend(t, [op |-> "ping_remove", target_index |-> target_index],
             RemoveCmd(target_index))

PingUpdateTarget(t, target_index, interval_ms, timeout_ms, count) ==
    PingSend(t, [op |-> "ping_update", target_index |-> target_index],
             UpdateCmd(target_index, interval_ms, timeout_ms, count))

PingSetTargetEnabled(t, target_index, enabled) ==
    PingSend(t, [op |-> "ping_enable", target_index |-> target_index,
                 enabled |-> enabled],
             EnableCmd(target_index, enabled))

\* The same functions when the send fails: ESP_ERR_TIMEOUT (lines 427, 450
\* and 468).
PingSendFull(t, a) ==
    /\ PingCall(t, a)
    /\ loc' = [loc EXCEPT ![t] = NoLoc]
    /\ ping_manager_running
    /\ QueueStaysFull
    /\ Finish(t, "ESP_ERR_TIMEOUT")
    /\ UNCHANGED pingvars
    /\ WolSame

PingRemoveTargetFull(t, target_index) ==
    PingSendFull(t, [op |-> "ping_remove", target_index |-> target_index])

PingUpdateTargetFull(t, target_index) ==
    PingSendFull(t, [op |-> "ping_update", target_index |-> target_index])

PingSetTargetEnabledFull(t, target_index, enabled) ==
    PingSendFull(t, [op |-> "ping_enable", target_index |-> target_index,
                     enabled |-> enabled])

\* ping_manager_get_target_stats, lines 473-477: the take succeeds
PingGetStats(t, target_index) ==
    /\ PingCall(t, [op |-> "ping_stats", target_index |-> target_index])
    /\ loc' = [loc EXCEPT ![t] = NoLoc]
    /\ IF ~ping_manager_running \/ ~ValidIndex(target_index)
       THEN /\ Finish(t, "ESP_ERR_INVALID_ARG")
            /\ UNCHANGED ping_mutex
       ELSE /\ ping_mutex = NoTask
            /\ ping_mutex' = t
            /\ Goto(t, "pstats_body")
    /\ UNCHANGED <<ping_targets, active_target_count, ping_task_handle,
                   ping_cmd_queue, ping_manager_running, result_callback,
                   clock, ptask, session>>
    /\ WolSame

\* ping_manager_get_target_stats when the take gives up after 1000 ms:
\* line 486 is reached with nothing copied.
PingGetStatsTimeout(t, target_index) ==
    /\ PingCall(t, [op |-> "ping_stats", target_index |-> target_index])
    /\ loc' = [loc EXCEPT ![t] = NoLoc]
    /\ ping_manager_running /\ ValidIndex(target_index)
    /\ ping_mutex \notin {"NULL", NoTask, t}
    /\ Finish(t, "ESP_ERR_NOT_FOUND")
    /\ UNCHANGED pingvars
    /\ WolSame

\* ping_manager_get_target_stats, lines 478-486, with the mutex
PingGetStatsBody(t) ==
    /\ pc[t] = "pstats_body"
    /\ IF ping_mutex = "NULL"
       THEN Reboot
       ELSE /\ ping_mutex' = NoTask
            /\ IF ping_targets[arg[t].target_index].ip_address # <<>>
               THEN Finish(t, "ESP_OK")
               ELSE Finish(t, "ESP_ERR_NOT_FOUND")
            /\ UNCHANGED <<ping_targets, active_target_count, ping_task_handle,
                           ping_cmd_queue, ping_manager_running,
                           result_callback, clock, ptask, session, arg, loc>>
            /\ WolSame

\* ping_manager_deinit, lines 577-589: the stop command is sent (the result
\* of xQueueSend is not looked at), the caller sleeps 500 ms.
PingDeinit(t) ==
    /\ PingCall(t, [op |-> "ping_deinit"])
    /\ loc' = [loc EXCEPT ![t] = NoLoc]
    /\ IF ~ping_manager_running
       THEN /\ Finish(t, "void")
            /\ UNCHANGED ping_cmd_queue
       ELSE /\ IF QueueStaysFull THEN UNCHANGED ping_cmd_queue
               ELSE Enqueue(StopCmd)
            /\ Goto(t, "pdeinit_wait")
    /\ UNCHANGED <<ping_targets, active_target_count, ping_task_handle,
                   ping_mutex, ping_manager_running, result_callback, clock,
                   ptask, session>>
    /\ WolSame

\* ping_manager_deinit, lines 590-609, whatever the ping task is doing
PingDeinitFinish(t) ==
    /\ pc[t] = "pdeinit_wait"
    /\ ping_task_handle' = "NULL"
    /\ ping_cmd_queue' = NoQueue
    /\ ping_mutex' = "NULL"
    /\ ping_targets' = ZeroTargets
    /\ active_target_count' = 0
    /\ ping_manager_running' = FALSE
    /\ result_callback' = "NULL"
    /\ Finish(t, "void")
    /\ UNCHANGED <<clock, ptask, session, arg, loc>>
    /\ WolSame

\* ping_task lines 184 and 213-217: the delay to the next tick, the test of
\* the while loop, vTaskDelete when it fails.
PTLoop(p) ==
    /\ ptask[p].pc = "loop"
    /\ ptask' = [ptask EXCEPT ![p].pc =
                    IF ping_manager_running THEN "drain" ELSE "exited"]
    /\ UNCHANGED <<ping_targets, active_target_count, ping_task_handle,
                   ping_cmd_queue, ping_mutex, ping_manager_running,
                   result_callback, clock, session>>
    /\ CallersSame
    /\ WolSame

\* ping_task line 186: xQueueReceive(ping_cmd_queue, &cmd, 0)
PTDrain(p) ==
    /\ ptask[p].pc = "drain"
    /\ IF ping_cmd_queue.handle = "NULL"
       THEN Reboot
       ELSE /\ IF ping_cmd_queue.items = <<>>
               THEN /\ ptask' = [ptask EXCEPT ![p].pc = "take"]
                    /\ UNCHANGED ping_cmd_queue
               ELSE /\ ptask' = [ptask EXCEPT ![p].pc = "exec",
                                    ![p].cmd = Head(ping_cmd_queue.items)]
                    /\ ping_cmd_queue' = [ping_cmd_queue EXCEPT !.items = Tail(@)]
            /\ UNCHANGED <<ping_targets, active_target_count, ping_task_handle,
                           ping_mutex, ping_manager_running, result_callback,
                           clock, session>>
            /\ CallersSame
            /\ WolSame

\* execute_ping_command: the take succeeds, the command is applied, the
\* mutex is given.
PTExec(p) ==
    /\ ptask[p].pc = "exec"
    /\ ping_mutex \in {"NULL", NoTask}
    /\ IF ping_mutex = "NULL"
       THEN Reboot
       ELSE /\ ping_targets' = ExecTargets(ping_targets, ptask[p].cmd)
            /\ active_target_count' =
                    ExecCount(ping_targets, active_target_count, ptask[p].cmd)
            /\ ping_manager_running' =
                    IF ptask[p].cmd.cmd_type = "STOP_ALL" THEN FALSE
                    ELSE ping_manager_running
            /\ ptask' = [ptask EXCEPT ![p].pc = "drain", ![p].cmd = NoCmd]
            /\ UNCHANGED <<ping_task_handle, ping_cmd_queue, ping_mutex,
                           result_callback, clock, session>>
            /\ CallersSame
            /\ WolSame

\* execute_ping_command lines 291-293: the take gives up after 1000 ms, the
\* command is dropped.
PTExecTimeout(p) ==
    /\ ptask[p].pc = "exec"
    /\ ping_mutex \notin {"NULL", NoTask, p}
    /\ ptask' = [ptask EXCEPT ![p].pc = "drain", ![p].cmd = NoCmd]
    /\ UNCHANGED <<ping_targets, active_target_count, ping_task_handle,
                   ping_cmd_queue, ping_mutex, ping_manager_running,
                   result_callback, clock, session>>
    /\ CallersSame
    /\ WolSame

\* ping_task lines 191-192: the take succeeds, the time is read
PTTake(p) ==
    /\ ptask[p].pc = "take"
    /\ ping_mutex \in {"NULL", NoTask}
    /\ IF ping_mutex = "NULL"
       THEN Reboot
       ELSE /\ ping_mutex' = p
            /\ ptask' = [ptask EXCEPT ![p].pc = "scan", ![p].i = 0,
                                      ![p].current_time = clock]
            /\ UNCHANGED <<ping_targets, active_target_count, ping_task_handle,
                           ping_cmd_queue, ping_manager_running,
                           result_callback, clock, session>>
            /\ CallersSame
            /\ WolSame

\* ping_task line 191: the take gives up after 100 ms, the pass is skipped
PTTakeTimeout(p) ==
    /\ ptask[p].pc = "take"
    /\ ping_mutex \notin {"NULL", NoTask, p}
    /\ ptask' = [ptask EXCEPT ![p].pc = "loop"]
    /\ UNCHANGED <<ping_targets, active_target_count, ping_task_handle,
                   ping_cmd_queue, ping_mutex, ping_manager_running,
                   result_callback, clock, session>>
    /\ CallersSame
    /\ WolSame

\* As PTScan, but an error of perform_single_ping ends the pass.
PTScan_ErrorEndsPass(p, made) ==
    /\ ptask[p].pc = "scan"
    /\ LET k == NextProbed(ping_targets, ptask[p].i, ptask[p].current_time) IN
       IF k = PING_MAX_TARGETS
       THEN IF ping_mutex = "NULL"
            THEN Reboot
            ELSE /\ ping_mutex' = IF ping_mutex = p THEN NoTask ELSE ping_mutex
                 /\ ptask' = [ptask EXCEPT ![p].pc = "loop", ![p].i = 0,
                                           ![p].current_time = 0]
                 /\ UNCHANGED <<ping_targets, active_target_count,
                                ping_task_handle, ping_cmd_queue,
                                ping_manager_running, result_callback, clock,
                                session>>
                 /\ CallersSame
                 /\ WolSame
       ELSE /\ ping_targets[k].success_count + ping_targets[k].fail_count
                    < MaxProbes
            /\ IF made /\ ipaddr_aton(ping_targets[k].ip_address) # <<>>
               THEN /\ session' = [session EXCEPT ![p] =
                            [NoSession EXCEPT
                                !.state = "running", !.target = k,
                                !.addr = ipaddr_aton(ping_targets[k].ip_address),
                                !.count = ping_targets[k].count]]
                    /\ ptask' = [ptask EXCEPT ![p].pc = "wait", ![p].i = k]
               ELSE /\ ptask' = [ptask EXCEPT ![p].i = PING_MAX_TARGETS]
                    /\ UNCHANGED session
            /\ UNCHANGED <<ping_targets, active_target_count, ping_task_handle,
                           ping_cmd_queue, ping_mutex, ping_manager_running,
                           result_callback, clock>>
            /\ CallersSame
            /\ WolSame

\* ping_task lines 194-209 and perform_single_ping lines 121-163, with the
\* mutex taken at line 191 still held: the loop runs on to the next slot it
\* probes and starts the session there, or reaches the end of the array and
\* gives the mutex.  made tells whether esp_ping_new_session and
\* esp_ping_start succeed.
PTScan(p, made) ==
    /\ ptask[p].pc = "scan"
    /\ LET k == NextProbed(ping_targets, ptask[p].i, ptask[p].current_time) IN
       IF k = PING_MAX_TARGETS
       THEN IF ping_mutex = "NULL"
            THEN Reboot
            ELSE /\ ping_mutex' = IF ping_mutex = p THEN NoTask ELSE ping_mutex
                 /\ ptask' = [ptask EXCEPT ![p].pc = "loop", ![p].i = 0,
                                           ![p].current_time = 0]
                 /\ UNCHANGED <<ping_targets, active_target_count,
                                ping_task_handle, ping_cmd_queue,
                                ping_manager_running, result_callback, clock,
                                session>>
                 /\ CallersSame
                 /\ WolSame
       ELSE /\ ping_targets[k].success_count + ping_targets[k].fail_count
                    < MaxProbes
            /\ IF made /\ ipaddr_aton(ping_targets[k].ip_address) # <<>>
               THEN /\ session' = [session EXCEPT ![p] =
                            [NoSession EXCEPT
                                !.state = "running", !.target = k,
                                !.addr = ipaddr_aton(ping_targets[k].ip_address),
                                !.count = ping_targets[k].count]]
                    /\ ptask' = [ptask EXCEPT ![p].pc = "wait", ![p].i = k]
               ELSE /\ ptask' = [ptask EXCEPT ![p].i = k + 1]
                    /\ UNCHANGED session
            /\ UNCHANGED <<ping_targets, active_target_count, ping_task_handle,
                           ping_cmd_queue, ping_mutex, ping_manager_running,
                           result_callback, clock>>
            /\ CallersSame
            /\ WolSame

\* ping_success_cb, run by the session for an echo reply that took
\* elapsed_time ms
PingSuccessCb(p, elapsed_time) ==
    /\ session[p].state = "running"
    /\ session[p].seq < session[p].count
    /\ session' = [session EXCEPT ![p].seq = @ + 1, ![p].received = @ + 1,
                                  ![p].success = TRUE,
                                  ![p].response_time = elapsed_time]
    /\ UNCHANGED <<ping_targets, active_target_count, ping_task_handle,
                   ping_cmd_queue, ping_mutex, ping_manager_running,
                   result_callback, clock, ptask>>
    /\ CallersSame
    /\ WolSame

\* ping_timeout_cb, run by the session for an echo request without reply
PingTimeoutCb(p) ==
    /\ session[p].state = "running"
    /\ session[p].seq < session[p].count
    /\ session' = [session EXCEPT ![p].seq = @ + 1, ![p].success = FALSE,
                                  ![p].response_time = 0]
    /\ UNCHANGED <<ping_targets, active_target_count, ping_task_handle,
                   ping_cmd_queue, ping_mutex, ping_manager_running,
                   result_callback, clock, ptask>>
    /\ CallersSame
    /\ WolSame

\* As PingEndCb, but only a cycle with a reply is reported.
PingEndCb_SuccessOnly(p) ==
    /\ session[p].state = "running"
    /\ session[p].seq = session[p].count
    /\ LET k == session[p].target
           replied == session[p].received > 0
       IN /\ ping_targets' = [ping_targets EXCEPT
                ![k].success_count = IF replied THEN @ + 1 ELSE @,
                ![k].fail_count = IF replied THEN @ ELSE @ + 1]
          /\ session' = [session EXCEPT
                ![p].state = IF result_callback = "NULL" \/ ~replied
                             THEN "ended" ELSE "callback",
                ![p].fn = result_callback,
                ![p].result =
                    IF result_callback = "NULL" \/ ~replied THEN <<>>
                    ELSE <<ping_targets[k].ip_address, replied,
                           IF replied THEN session[p].response_time ELSE 0>>]
    /\ UNCHANGED <<active_target_count, ping_task_handle, ping_cmd_queue,
                   ping_mutex, ping_manager_running, result_callback, clock,
                   ptask>>
    /\ CallersSame
    /\ WolSame

\* ping_end_cb, run by the session after the last echo request: the counter
\* of ctx->target, then result_callback with the address stored there.
PingEndCb(p) ==
    /\ session[p].state = "running"
    /\ session[p].seq = session[p].count
    /\ LET k == session[p].target
           replied == session[p].received > 0
       IN /\ ping_targets' = [ping_targets EXCEPT
                ![k].success_count = IF replied THEN @ + 1 ELSE @,
                ![k].fail_count = IF replied THEN @ ELSE @ + 1]
          /\ session' = [session EXCEPT
                ![p].state = IF result_callback = "NULL" THEN "ended"
                             ELSE "callback",
                ![p].fn = result_callback,
                ![p].result =
                    IF result_callback = "NULL" THEN <<>>
                    ELSE <<ping_targets[k].ip_address, replied,
                           IF replied THEN session[p].response_time ELSE 0>>]
    /\ UNCHANGED <<active_target_count, ping_task_handle, ping_cmd_queue,
                   ping_mutex, ping_manager_running, result_callback, clock,
                   ptask>>
    /\ CallersSame
    /\ WolSame

\* The function given to ping_manager_init returns.
CallbackReturn(p) ==
    /\ session[p].state = "callback"
    /\ session[p].fn = "callback"
    /\ session' = [session EXCEPT ![p].state = "ended"]
    /\ UNCHANGED <<ping_targets, active_target_count, ping_task_handle,
                   ping_cmd_queue, ping_mutex, ping_manager_running,
                   result_callback, clock, ptask>>
    /\ CallersSame
    /\ WolSame

\* perform_single_ping lines 166-174: the wait, which outlasts the session,
\* is over; the session is deleted and the time of the probe is written.
PTProbeDone(p) ==
    /\ ptask[p].pc = "wait"
    /\ session[p].state = "ended"
    /\ ping_targets' = [ping_targets EXCEPT ![ptask[p].i].last_ping_time = clock]
    /\ session' = [session EXCEPT ![p] = NoSession]
    /\ ptask' = [ptask EXCEPT ![p].pc = "scan", ![p].i = @ + 1]
    /\ UNCHANGED <<active_target_count, ping_task_handle, ping_cmd_queue,
                   ping_mutex, ping_manager_running, result_callback, clock>>
    /\ CallersSame
    /\ WolSame

\* Time passes.
Tick ==
    /\ clock < Horizon
    /\ clock' = clock + TickUs
    /\ UNCHANGED <<ping_targets, active_target_count, ping_task_handle,
                   ping_cmd_queue, ping_mutex, ping_manager_running,
                   result_callback, ptask, session>>
    /\ CallersSame
    /\ WolSame

(***************************************************************************)
(* The result callback.  No file of the repository defines the function    *)
(* that is given to ping_manager_init, and none calls                      *)
(* wol_update_device_status; the callback below is the one the design      *)
(* document describes: the result of a probe is applied to the device that *)
(* has the probed address.                                                 *)
(***************************************************************************)
DeviceOfIp(devs, count, ip) ==
    IF \E i \in 0..(count - 1) : StrEq(devs[i].ip_address, ip)
    THEN CHOOSE i \in 0..(count - 1) :
            /\ StrEq(devs[i].ip_address, ip)
            /\ \A j \in 0..(i - 1) : ~StrEq(devs[j].ip_address, ip)
    ELSE -1

\* The callback finds the device and calls wol_update_device_status.
StatusCallbackCall(p) ==
    /\ session[p].state = "callback"
    /\ session[p].fn = "status_callback"
    /\ pc[SessionTask] = "idle"
    /\ LET i == DeviceOfIp(devices, device_count, session[p].result[1]) IN
       /\ i # -1
       /\ Call(SessionTask, UpdateArg(devices[i].name, session[p].result[2]))

\* The callback finds no device with the address and returns.
StatusCallbackSkip(p) ==
    /\ session[p].state = "callback"
    /\ session[p].fn = "status_callback"
    /\ pc[SessionTask] = "idle"
    /\ DeviceOfIp(devices, device_count, session[p].result[1]) = -1
    /\ session' = [session EXCEPT ![p].state = "ended"]
    /\ UNCHANGED <<ping_targets, active_target_count, ping_task_handle,
                   ping_cmd_queue, ping_mutex, ping_manager_running,
                   result_callback, clock, ptask>>
    /\ CallersSame
    /\ WolSame

\* wol_update_device_status has returned, the callback returns.
StatusCallbackReturn(p) ==
    /\ session[p].state = "callback"
    /\ session[p].fn = "status_callback"
    /\ pc[SessionTask] = "done"
    /\ session' = [session EXCEPT ![p].state = "ended"]
    /\ pc' = [pc EXCEPT ![SessionTask] = "idle"]
    /\ arg' = [arg EXCEPT ![SessionTask] = NoArg]
    /\ loc' = [loc EXCEPT ![SessionTask] = NoLoc]
    /\ ret' = [ret EXCEPT ![SessionTask] = "none"]
    /\ UNCHANGED <<ping_targets, active_target_count, ping_task_handle,
                   ping_cmd_queue, ping_mutex, ping_manager_running,
                   result_callback, clock, ptask>>
    /\ WolSame

(***************************************************************************)
(* The inputs the callers draw from.                                       *)
(***************************************************************************)
AddNames == {Server1}
AddConfigs == {[ip |-> IpOther, mac |-> Mac1, desc |-> Null]}
RemoveNames == {Server1}
DeviceNames == {Server1}
TickSeconds == 1..MaxNow

\* One step of task t in the WoL registry, timeouts of the mutex left out.
WolStep(t) ==
    \/ WolManagerInit(t)
    \/ \E name \in AddNames, c \in AddConfigs : CallAdd(t, name, c.ip, c.mac, c.desc)
    \/ \E name \in RemoveNames : CallRemove(t, name)
    \/ \E name \in DeviceNames : CallWake(t, name)
    \/ \E name \in DeviceNames, is_online \in BOOLEAN : CallUpdate(t, name, is_online)
    \/ \E name \in DeviceNames, enabled \in BOOLEAN : CallSetEnabled(t, name, enabled)
    \/ AddBody(t)
    \/ AddUpdIp(t)
    \/ AddUpdMac(t)
    \/ AddUpdDesc(t)
    \/ AddPing(t)
    \/ RemoveBody(t)
    \/ RemovePing(t)
    \/ WakeBody(t)
    \/ \E sent \in BOOLEAN : WakeSend(t, sent)
    \/ WakePub(t)
    \/ \E now \in TickSeconds : UpdateBody(t, now)
    \/ UpdatePub(t)
    \/ SetEnabledBody(t)

Init == WolInit /\ PingZero

\* A call whose wait for the mutex expires.
WolTimeout(t) ==
    \/ \E name \in RemoveNames : CallTimeout(t, RemoveArg(name))
    \/ \E name \in DeviceNames : CallTimeout(t, WakeArg(name))
    \/ \E name \in DeviceNames, is_online \in BOOLEAN :
            CallTimeout(t, UpdateArg(name, is_online))

Next == \E t \in Tasks : WolStep(t) \/ WolTimeout(t)

Spec == Init /\ [][Next]_vars

\* One task alone: every call runs from its first step to its return with
\* no step of another task in between.
NextSeq ==
    \/ WolStep("t1")
    \/ \E c \in AddConfigs : CallAdd("t1", Name32, c.ip, c.mac, c.desc)
    \/ CallRemove("t1", Name31)

SpecSeq == Init /\ [][NextSeq]_vars

\* The registry under concurrent wol_add_device and wol_remove_device calls
\* only, with a name longer than the name buffer among the inputs.
RegAddNames == {Server1, Name32}
RegRemoveNames == {Server1, Name31}

RegStep(t) ==
    \/ WolManagerInit(t)
    \/ \E name \in RegAddNames, c \in AddConfigs :
            CallAdd(t, name, c.ip, c.mac, c.desc)
    \/ \E name \in RegRemoveNames : CallRemove(t, name)
    \/ \E name \in RegRemoveNames : CallTimeout(t, RemoveArg(name))
    \/ AddBody(t)
    \/ AddUpdIp(t)
    \/ AddUpdMac(t)
    \/ AddUpdDesc(t)
    \/ AddPing(t)
    \/ RemoveBody(t)
    \/ RemovePing(t)

NextReg == \E t \in Tasks : RegStep(t)

SpecReg == Init /\ [][NextReg]_vars

\* The registry filled to its capacity: after the three configured
\* devices, the tasks add d03, d04, ... one after the other, add the last
\* name again, remove it, and go on adding when the list is full.
DigitChars == <<"0", "1", "2", "3", "4", "5", "6", "7", "8", "9">>
FillName(k) == <<"d", DigitChars[(k \div 10) + 1], DigitChars[(k % 10) + 1]>>

FullStep(t) ==
    \/ WolManagerInit(t)
    \/ \E k \in 3..MAX_DEVICES :
            /\ k \in {device_count - 1, device_count}
            /\ Call(t, AddArg(FillName(k), IpOther, Mac2, Null))
    \/ \E k \in 3..MAX_DEVICES :
            /\ k = device_count - 1
            /\ CallRemove(t, FillName(k))
    \/ AddBody(t)
    \/ AddUpdIp(t)
    \/ AddUpdMac(t)
    \/ AddUpdDesc(t)
    \/ AddPing(t)
    \/ RemoveBody(t)
    \/ RemovePing(t)

NextFull == \E t \in Tasks : FullStep(t)

SpecFull == Init /\ [][NextFull]_vars

\* Wake-ups of server1 while another task gives it a new hardware address:
\* wol_add_device of the registered name and wol_wake_device, two tasks.
MacConfigs == {[ip |-> IpServer1, mac |-> Mac2, desc |-> Null]}

MacStep(t) ==
    \/ WolManagerInit(t)
    \/ \E c \in MacConfigs : CallAdd(t, Server1, c.ip, c.mac, c.desc)
    \/ AddBody(t)
    \/ AddUpdIp(t)
    \/ AddUpdMac(t)
    \/ AddUpdDesc(t)
    \/ CallWake(t, Server1)
    \/ WakeBody(t)
    \/ \E sent \in BOOLEAN : WakeSend(t, sent)
    \/ WakePub(t)

NextMac == \E t \in Tasks : MacStep(t)

SpecMac == Init /\ [][NextMac]_vars

\* The ping engine with one application task: every public function but
\* the one-shot pings, the ping task, the session of its probe, the clock.
PingIps == {IpOther}
PingIndexes == {0}
LongIntervalMs == 2 * PING_DEFAULT_INTERVAL
ReplyTimes == {12}

\* The callers make no call that leaves more than MaxPending commands in
\* the queue.
FewPending == Len(ping_cmd_queue'.items) <= MaxPending

PingCallerStep(t) ==
    \/ PingManagerInit(t, "callback")
    \/ \E ip \in PingIps : PingAddTarget(t, ip, 0, 0, 0) /\ FewPending
    \/ PingAddReturn(t)
    \/ \E k \in PingIndexes : PingRemoveTarget(t, k) /\ FewPending
    \/ \E k \in PingIndexes :
            PingUpdateTarget(t, k, LongIntervalMs, 0, 0) /\ FewPending
    \/ \E k \in PingIndexes, enabled \in BOOLEAN :
            PingSetTargetEnabled(t, k, enabled) /\ FewPending
    \/ \E k \in PingIndexes : PingGetStats(t, k)
    \/ \E k \in PingIndexes : PingGetStatsTimeout(t, k)
    \/ PingGetStatsBody(t)
    \/ PingDeinit(t) /\ FewPending
    \/ PingDeinitFinish(t)

PingTaskStep(p) ==
    \/ PTLoop(p)
    \/ PTDrain(p)
    \/ PTExec(p)
    \/ PTTake(p)
    \/ PTProbeDone(p)

PingTaskTimeout(p) ==
    \/ PTExecTimeout(p)
    \/ PTTakeTimeout(p)

SessionStep(p) ==
    \/ \E elapsed_time \in ReplyTimes : PingSuccessCb(p, elapsed_time)
    \/ PingTimeoutCb(p)
    \/ PingEndCb(p)

NextPing ==
    \/ PingCallerStep("t1")
    \/ \E p \in PTasks :
        \/ PingTaskStep(p)
        \/ PingTaskTimeout(p)
        \/ \E made \in BOOLEAN : PTScan(p, made)
        \/ SessionStep(p)
        \/ CallbackReturn(p)
    \/ Tick

SpecPing == Init /\ [][NextPing]_vars

\* Indexes in and out of the target array: one application task adds a
\* target and removes targets by index, valid or not, while the ping task
\* runs at any speed and probes.
RangeIndexes == {-1, 0, PING_MAX_TARGETS}

RangeCallerStep(t) ==
    \/ PingManagerInit(t, "callback")
    \/ \E ip \in PingIps : PingAddTarget(t, ip, 0, 0, 0) /\ FewPending
    \/ PingAddReturn(t)
    \/ \E k \in RangeIndexes : PingRemoveTarget(t, k) /\ FewPending
    \/ \E k \in RangeIndexes : PingGetStats(t, k)
    \/ PingGetStatsBody(t)

NextRange ==
    \/ RangeCallerStep("t1")
    \/ \E p \in PTasks :
        \/ PingTaskStep(p)
        \/ PTScan(p, TRUE)
        \/ SessionStep(p)
        \/ CallbackReturn(p)
    \/ Tick

SpecRange == Init /\ [][NextRange]_vars

\* Starts of the engine that fail: one application task starts and stops
\* the engine and sends commands; a start can fail at each of its three
\* creations.  The runs start the engine when no ping task of an earlier
\* run is alive.
NoOldTask == \A p \in PTasks : ptask[p].pc \in {"none", "exited"}

InitCallerStep(t) ==
    \/ PingManagerInit(t, "callback")
    \/ \E stage \in InitStages :
            PingManagerInitFails(t, "callback", stage) /\ NoOldTask
    \/ \E ip \in PingIps : PingAddTarget(t, ip, 0, 0, 0) /\ FewPending
    \/ PingAddReturn(t)
    \/ \E k \in PingIndexes : PingRemoveTarget(t, k) /\ FewPending
    \/ \E k \in PingIndexes, enabled \in BOOLEAN :
            PingSetTargetEnabled(t, k, enabled) /\ FewPending
    \/ \E k \in PingIndexes :
            PingUpdateTarget(t, k, LongIntervalMs, 0, 0) /\ FewPending
    \/ PingDeinit(t) /\ FewPending
    \/ PingDeinitFinish(t)

NextInit ==
    \/ InitCallerStep("t1")
    \/ \E p \in PTasks :
        \/ PingTaskStep(p)
        \/ PTScan(p, TRUE)
        \/ SessionStep(p)
        \/ CallbackReturn(p)
    \/ Tick

SpecInit == Init /\ [][NextInit]_vars

\* Long intervals: one application task adds a target with the default
\* interval or with the smallest interval whose number of microseconds
\* does not fit 32 bits, and removes it, while the ping task probes.
WrapIntervalMs == 65 * 65536 + 35128

WrapCallerStep(t) ==
    \/ PingManagerInit(t, "callback")
    \/ \E ip \in PingIps, interval_ms \in {0, WrapIntervalMs} :
            PingAddTarget(t, ip, interval_ms, 0, 0) /\ FewPending
    \/ PingAddReturn(t)
    \/ \E k \in PingIndexes : PingRemoveTarget(t, k) /\ FewPending

NextWrap ==
    \/ WrapCallerStep("t1")
    \/ \E p \in PTasks :
        \/ PingTaskStep(p)
        \/ PTScan(p, TRUE)
        \/ SessionStep(p)
        \/ CallbackReturn(p)
    \/ Tick

SpecWrap == Init /\ [][NextWrap]_vars

\* A target whose probes end badly in front of one whose probes can be
\* made: one application task starts the engine and registers the address
\* of server1, whose session may fail to start and which never replies,
\* and then a second address.  The ping task, the sessions and the clock
\* run on.
StarveIps == {IpServer1, IpOther}

\* esp_ping_new_session and esp_ping_start succeed for the second address.
MadeFor(p, made) ==
    \/ made
    \/ NextProbed(ping_targets, ptask[p].i, ptask[p].current_time)
            = PING_MAX_TARGETS
    \/ ping_targets[NextProbed(ping_targets, ptask[p].i,
                ptask[p].current_time)].ip_address # IpOther

StarveCallerStep(t) ==
    \/ PingManagerInit(t, "callback") /\ ~ping_manager_running
    \/ \E ip \in StarveIps :
        /\ PingAddTarget(t, ip, 0, 0, 0)
        /\ FewPending
        /\ find_target_by_ip(ping_targets, ip) < 0
        /\ ip = IpOther => find_target_by_ip(ping_targets, IpServer1) >= 0
    \/ PingAddReturn(t)

StarveTaskStep(p) ==
    \/ PingTaskStep(p)
    \/ \E made \in BOOLEAN : PTScan(p, made) /\ MadeFor(p, made)

StarveSessionStep(p) ==
    \/ /\ \E elapsed_time \in ReplyTimes : PingSuccessCb(p, elapsed_time)
       /\ ping_targets[session[p].target].ip_address = IpOther
    \/ PingTimeoutCb(p)
    \/ PingEndCb(p)
    \/ CallbackReturn(p)

NextStarve ==
    \/ StarveCallerStep("t1")
    \/ \E p \in PTasks :
        \/ StarveTaskStep(p)
        \/ StarveSessionStep(p)
    \/ Tick

\* The FreeRTOS scheduler runs the ping task and the task of the session
\* when they are ready, and the clock goes on.
StarveFairness ==
    /\ \A p \in PTasks : WF_vars(StarveTaskStep(p))
    /\ \A p \in PTasks : WF_vars(StarveSessionStep(p))
    /\ WF_vars(Tick)

SpecStarve == Init /\ [][NextStarve]_vars /\ StarveFairness

\* Probe cycles of more than one echo request: one application task adds
\* a target with count = 2 and removes it, while the ping task probes.
CycleCount == 2

CycleCallerStep(t) ==
    \/ PingManagerInit(t, "callback")
    \/ \E ip \in PingIps :
            PingAddTarget(t, ip, 0, 0, CycleCount) /\ FewPending
    \/ PingAddReturn(t)
    \/ \E k \in PingIndexes : PingRemoveTarget(t, k) /\ FewPending

NextCycle ==
    \/ CycleCallerStep("t1")
    \/ \E p \in PTasks :
        \/ PingTaskStep(p)
        \/ PTScan(p, TRUE)
        \/ SessionStep(p)
        \/ CallbackReturn(p)
    \/ Tick

SpecCycle == Init /\ [][NextCycle]_vars

\* Commands from MQTT: two tasks hand commands for server1 to
\* wol_handle_mqtt_command, known and unknown, while wol_remove_device,
\* wol_add_device and wol_update_device_status change the list.
VerbOff == <<"o", "f", "f">>
Commands == {VerbOn, VerbWake, VerbStatus, VerbEnable, VerbDisable,
             VerbOff, Null}

CommandStep(t) ==
    \/ WolManagerInit(t)
    \/ \E command \in Commands : wol_handle_mqtt_command(t, Server1, command)
    \/ WakeBody(t)
    \/ \E sent \in BOOLEAN : WakeSend(t, sent)
    \/ WakePub(t)
    \/ SetEnabledBody(t)
    \/ StatusFormat(t)
    \/ StatusPub(t)
    \/ CallRemove(t, Server1)
    \/ RemoveBody(t)
    \/ RemovePing(t)
    \/ CallAdd(t, Server1, IpOther, Mac1, Null)
    \/ AddBody(t)
    \/ AddUpdIp(t)
    \/ AddUpdMac(t)
    \/ AddUpdDesc(t)
    \/ AddPing(t)
    \/ \E is_online \in BOOLEAN : CallUpdate(t, Server1, is_online)
    \/ \E now \in TickSeconds : UpdateBody(t, now)
    \/ UpdatePub(t)

NextCmd == \E t \in Tasks : CommandStep(t)

SpecCmd == Init /\ [][NextCmd]_vars

\* The command queue filled to its size: one application task removes
\* target 0 again and again and adds the target when the queue is empty or
\* full, while the ping task runs at any speed and probes.
QueueCallerStep(t) ==
    \/ PingManagerInit(t, "callback")
    \/ \E ip \in PingIps :
            ping_cmd_queue.items = <<>> /\ PingAddTarget(t, ip, 0, 0, 0)
    \/ \E ip \in PingIps : PingAddTargetFull(t, ip, 0, 0, 0)
    \/ PingAddReturn(t)
    \/ \E k \in PingIndexes : PingRemoveTarget(t, k)
    \/ \E k \in PingIndexes : PingRemoveTargetFull(t, k)

NextQueue ==
    \/ QueueCallerStep("t1")
    \/ \E p \in PTasks :
        \/ PingTaskStep(p)
        \/ PTScan(p, TRUE)
        \/ SessionStep(p)
        \/ CallbackReturn(p)
    \/ Tick

SpecQueue == Init /\ [][NextQueue]_vars

\* Two commands in the queue: one application task enables and disables
\* target 0 and reads its statistics, with at most TwoPending commands
\* waiting; the ping task runs at any speed, and its takes of ping_mutex
\* may give up.
TwoPending == MaxPending + 1

OrderCallerStep(t) ==
    \/ PingManagerInit(t, "callback")
    \/ \E ip \in PingIps :
            ping_cmd_queue.items = <<>> /\ PingAddTarget(t, ip, 0, 0, 0)
    \/ PingAddReturn(t)
    \/ \E k \in PingIndexes, enabled \in BOOLEAN :
            /\ PingSetTargetEnabled(t, k, enabled)
            /\ Len(ping_cmd_queue'.items) <= TwoPending
    \/ \E k \in PingIndexes : PingGetStats(t, k)
    \/ \E k \in PingIndexes : PingGetStatsTimeout(t, k)
    \/ PingGetStatsBody(t)

NextOrder ==
    \/ OrderCallerStep("t1")
    \/ \E p \in PTasks :
        \/ PingTaskStep(p)
        \/ PingTaskTimeout(p)
        \/ PTScan(p, TRUE)
        \/ SessionStep(p)
        \/ CallbackReturn(p)
    \/ Tick

SpecOrder == Init /\ [][NextOrder]_vars

\* A slot that is used again: one application task registers the address
\* of server1, and while slot 0 holds it the task removes and disables
\* slot 0 and registers a second address.
ReuseCallerStep(t) ==
    \/ PingManagerInit(t, "callback") /\ ~ping_manager_running
    \/ /\ PingAddTarget(t, IpServer1, 0, 0, 0)
       /\ ping_cmd_queue.items = <<>>
       /\ find_target_by_ip(ping_targets, IpServer1) < 0
    \/ PingAddReturn(t)
    \/ /\ ping_targets[0].ip_address = IpServer1
       /\ \/ PingRemoveTarget(t, 0)
          \/ PingSetTargetEnabled(t, 0, FALSE)
          \/ /\ PingAddTarget(t, IpOther, 0, 0, 0)
             /\ find_target_by_ip(ping_targets, IpOther) < 0
       /\ Len(ping_cmd_queue'.items) <= TwoPending

NextReuse ==
    \/ ReuseCallerStep("t1")
    \/ \E p \in PTasks :
        \/ PingTaskStep(p)
        \/ PTScan(p, TRUE)
        \/ SessionStep(p)
        \/ CallbackReturn(p)
    \/ Tick

SpecReuse == Init /\ [][NextReuse]_vars

\* Wake-ups of one monitored device: the start-up calls, the registration
\* of the address of server1 as a ping target, wol_wake_device, the ping
\* task, and the result callback that applies the results.  The sessions
\* can be created, and the critical sections of device_mutex are far
\* shorter than the 1000 ms a take waits: no take gives up.
StatusCallbackStep(p) ==
    \/ StatusCallbackCall(p)
    \/ StatusCallbackSkip(p)
    \/ StatusCallbackReturn(p)

StatusUpdateStep ==
    \/ \E now \in TickSeconds : UpdateBody(SessionTask, now)
    \/ UpdatePub(SessionTask)

WakeStep(t) ==
    \/ WakeBody(t)
    \/ \E sent \in BOOLEAN : WakeSend(t, sent)
    \/ WakePub(t)

NextWake ==
    \/ WolManagerInit("t1")
    \/ PingManagerInit("t1", "status_callback")
    \/ PingAddTarget("t1", IpServer1, 0, 0, 0) /\ FewPending
    \/ PingAddReturn("t1")
    \/ CallWake("t1", Server1)
    \/ WakeStep("t1")
    \/ \E p \in PTasks :
        \/ PingTaskStep(p)
        \/ PTScan(p, TRUE)
        \/ SessionStep(p)
        \/ StatusCallbackStep(p)
    \/ StatusUpdateStep
    \/ Tick

\* The FreeRTOS scheduler runs every task that is ready, the clock goes
\* on, and a task that waits for device_mutex gets it when it is given.
WakeFairness ==
    /\ \A p \in PTasks : WF_vars(PingTaskStep(p) \/ PTScan(p, TRUE))
    /\ \A p \in PTasks : WF_vars(SessionStep(p))
    /\ \A p \in PTasks : SF_vars(StatusCallbackCall(p))
    /\ \A p \in PTasks : WF_vars(StatusCallbackSkip(p) \/ StatusCallbackReturn(p))
    /\ WF_vars(StatusUpdateStep)
    /\ WF_vars(WakeStep("t1"))
    /\ WF_vars(Tick)

SpecWake == Init /\ [][NextWake]_vars /\ WakeFairness

(***************************************************************************)
(* Properties of the WoL device registry.                                  *)
(***************************************************************************)
Registered == 0..(device_count - 1)

\* C1: in every reachable state no two entries devices[0..device_count-1]
\* carry the same stored name.
C1_NamesUnique ==
    \A i, j \in Registered : i # j => devices[i].name # devices[j].name

ValidName(name) == Len(name) <= NAME_SIZE - 1
ValidIp(ip) == Len(ip) <= IP_SIZE - 1

AddReturnedOk(t) ==
    /\ pc[t] = "done" /\ arg[t].op = "add" /\ ret[t] = "ESP_OK"
    /\ ValidName(arg[t].name) /\ ValidIp(arg[t].ip)

\* The add call of t has found its name in the registry (the second add).
UpdatingExisting(t) ==
    \/ pc[t] \in {"add_upd_ip", "add_upd_mac", "add_upd_desc"}
    \/ /\ pc[t] = "body" /\ arg[t].op = "add"
       /\ wol_get_device(arg[t].name) # -1

\* C2: with no other task running, after wol_add_device(name, address, ...)
\* of a valid name and address has returned ESP_OK, wol_get_device(name)
\* finds an entry whose ip_address is address; an add of a name that is
\* registered leaves device_count as it was and returns ESP_OK.
C2_AddThenGet ==
    /\ [](AddReturnedOk("t1") =>
            /\ wol_get_device(arg["t1"].name) # -1
            /\ devices[wol_get_device(arg["t1"].name)].ip_address = arg["t1"].ip)
    /\ [][UpdatingExisting("t1") =>
            /\ device_count' = device_count
            /\ pc'["t1"] = "done" => ret'["t1"] = "ESP_OK"]_vars

C2_Witness ==
    /\ AddReturnedOk("t1")
    /\ loc["t1"].i # -1
    /\ devices[loc["t1"].i].name = Server1
    /\ devices[loc["t1"].i].ip_address = IpOther

\* The step is one of task t.
StepOf(t) == pc'[t] # pc[t]

\* Task t takes the step of wol_update_device_status that finds its device.
UpdateFinds(t) ==
    /\ pc[t] = "body" /\ arg[t].op = "update"
    /\ wol_get_device(arg[t].name) # -1
    /\ StepOf(t)

StatusOf(is_online) == IF is_online THEN "ONLINE" ELSE "OFFLINE"

\* C6: wol_update_device_status on a registered device sets its status to
\* Online when the result is alive and to Offline when it is not, whatever
\* the status was; no result leaves or produces Unknown or Waking.
C6_ResultSetsStatus ==
    [][\A t \in Tasks : UpdateFinds(t) =>
            devices'[wol_get_device(arg[t].name)].status
                = StatusOf(arg[t].is_online)]_vars

C6_Witness ==
    \E t \in Tasks :
        /\ pc[t] = "upd_pub" /\ arg[t].is_online
        /\ devices[loc[t].i].status = "ONLINE"
        /\ \E u \in Tasks : pc[u] = "wake_send"

\* The status event of a change: the step that writes the status goes on to
\* the publish exactly when the status changed, and the publish hands one
\* message for the topic of the device to mqtt_publish.
ChangeFiresOneEvent(t) ==
    /\ UpdateFinds(t) =>
         LET i == wol_get_device(arg[t].name) IN
         (pc'[t] = "upd_pub") <=> (devices'[i].status # devices[i].status)
    /\ (pc[t] = "upd_pub" /\ StepOf(t)) =>
         /\ mqtt_out' # NoMsg
         /\ mqtt_out'[1] = StatusTopic(arg[t].name)
         /\ pc'[t] = "done"

\* C7 as stated: a status change made by a probe result fires exactly one
\* status event, and the second of two consecutive recorded results with
\* the same outcome fires none, whatever ran in between.
C7_SameOutcomeFiresNone ==
    [][\A t \in Tasks :
        /\ ChangeFiresOneEvent(t)
        /\ (UpdateFinds(t) /\ recorded[wol_get_device(arg[t].name)]
                = (IF arg[t].is_online THEN "alive" ELSE "dead"))
             => pc'[t] # "upd_pub"]_vars

\* C7 amended: wol_update_device_status fires exactly one status event when
\* the status it writes differs from the stored one (Unknown and Waking
\* included) and none otherwise; the second of two consecutive results with
\* the same outcome fires none unless wol_wake_device set the status to
\* Waking in between.
C7_ChangeFiresOneEvent ==
    [][\A t \in Tasks :
        /\ ChangeFiresOneEvent(t)
        /\ (/\ UpdateFinds(t)
            /\ recorded[wol_get_device(arg[t].name)]
                    = (IF arg[t].is_online THEN "alive" ELSE "dead")
            /\ devices[wol_get_device(arg[t].name)].status # "WAKING")
             => pc'[t] # "upd_pub"]_vars

C7_Witness ==
    \E t \in Tasks :
        /\ pc[t] = "done" /\ arg[t].op = "update" /\ ret[t] = "ESP_OK"
        /\ arg[t].is_online
        /\ recorded[loc[t].i] = "alive"
        /\ mqtt_out = NoMsg
        /\ devices[loc[t].i].status = "ONLINE"

\* Task t takes the step of wol_wake_device that finds its device disabled.
WakeFindsDisabled(t) ==
    /\ pc[t] = "body" /\ arg[t].op = "wake"
    /\ wol_get_device(arg[t].name) # -1
    /\ ~devices[wol_get_device(arg[t].name)].enabled
    /\ StepOf(t)

\* C9: wol_wake_device of a registered but disabled device returns
\* ESP_ERR_INVALID_STATE, sends no packet, publishes nothing and leaves
\* every field of the registry as it was.
C9_DisabledWakeRejected ==
    [][\A t \in Tasks : WakeFindsDisabled(t) =>
            /\ pc'[t] = "done"
            /\ ret'[t] = "ESP_ERR_INVALID_STATE"
            /\ devices' = devices
            /\ device_count' = device_count
            /\ udp_out' = NoMsg
            /\ mqtt_out' = NoMsg]_vars

C9_Witness ==
    \E t \in Tasks :
        /\ pc[t] = "done" /\ arg[t].op = "wake"
        /\ ret[t] = "ESP_ERR_INVALID_STATE"
        /\ ~devices[wol_get_device(arg[t].name)].enabled

\* C10: wol_wake_device sets the status to Waking with device_mutex held
\* and has given the mutex before wol_send_packet runs: the waker never
\* holds it while the packet is sent, and at the release the status read
\* under the mutex is Waking.
C10_WakeReleasesBeforeSend ==
    /\ [](\A t \in Tasks : pc[t] = "wake_send" => device_mutex # t)
    /\ [][\A t \in Tasks :
            (pc[t] = "body" /\ arg[t].op = "wake" /\ pc'[t] = "wake_send") =>
                /\ device_mutex = t
                /\ device_mutex' = NoTask
                /\ devices'[loc'[t].i].status = "WAKING"
                /\ devices'[loc'[t].i].name = arg[t].name]_vars

C10_Witness ==
    \E t, u \in Tasks :
        /\ pc[t] = "wake_send"
        /\ device_mutex = u
        /\ pc[u] = "body"
        /\ devices[loc[t].i].status = "WAKING"

(***************************************************************************)
(* Properties of the ping engine.                                          *)
(***************************************************************************)
\* The session of p applies its result: ping_end_cb runs.
ResultApplied(p) ==
    /\ session[p].state = "running"
    /\ session'[p].state \in {"callback", "ended"}

\* The ping task p writes the time of the probe it waited for.
ProbeTimeWritten(p) ==
    /\ ptask[p].pc = "wait"
    /\ ptask'[p].pc = "scan"

\* C3: every count, every last_ping_time write and every result callback
\* of a probe acts on the target the probe was started for: at the step
\* that applies the result or writes the time, the slot of the probe still
\* holds the address the session was created for.
C3_ResultOnProbedTarget ==
    [][\A p \in PTasks :
        (ResultApplied(p) \/ ProbeTimeWritten(p)) =>
            ipaddr_aton(ping_targets[session[p].target].ip_address)
                = session[p].addr]_vars

\* C4: ping_mutex is never held while a probe is in flight: no ping task
\* holds it while a session of its probe exists.
C4_NoLockDuringProbe ==
    \A p \in PTasks : session[p].state # "none" => ping_mutex # p

Occupied(targets, k) == targets[k].ip_address # <<>>

Probes(target) == target.success_count + target.fail_count

\* C5: for every target that stays registered, success_count + fail_count
\* never decreases, whatever probe result or command is applied; a step
\* that lowers the sum of a slot removes the target of the slot.
C5_CountsNeverDecrease ==
    [][\A k \in Slots :
        (/\ Occupied(ping_targets, k)
         /\ ping_targets'[k].ip_address = ping_targets[k].ip_address)
            => Probes(ping_targets'[k]) >= Probes(ping_targets[k])]_vars

C5_Witness ==
    \E k \in Slots :
        /\ Occupied(ping_targets, k)
        /\ ~ping_targets[k].enabled
        /\ ping_targets[k].interval_ms = LongIntervalMs
        /\ ping_targets[k].success_count >= 1
        /\ ping_targets[k].fail_count >= 1

(***************************************************************************)
(* Properties of wake-ups of a monitored device.                           *)
(***************************************************************************)
\* The device server1 is registered with status Waking.
Waking ==
    /\ wol_get_device(Server1) # -1
    /\ devices[wol_get_device(Server1)].status = "WAKING"

\* The address of server1 is an enabled target of the running engine, no
\* probe is in flight, and the next probe of the target lies within the
\* bounds of the model: its count is below MaxProbes and it is due at or
\* before Horizon.
ProbeAhead ==
    /\ ping_manager_running
    /\ \A p \in PTasks : session[p].state = "none"
    /\ \E k \in Slots :
        /\ ping_targets[k].ip_address
                = devices[wol_get_device(Server1)].ip_address
        /\ ping_targets[k].enabled
        /\ Probes(ping_targets[k]) < MaxProbes
        /\ ping_targets[k].last_ping_time
                + ping_targets[k].interval_ms * 1000 <= Horizon

Measured ==
    /\ wol_get_device(Server1) # -1
    /\ devices[wol_get_device(Server1)].status \in {"ONLINE", "OFFLINE"}

IsMagicPacket(payload, m) ==
    /\ DOMAIN payload = 1..102
    /\ \A b \in 1..6 : payload[b] = 255
    /\ \A k \in 0..15, j \in 0..5 : payload[6 + 6 * k + j + 1] = m[j + 1]

\* The hardware addresses the device at index i has while task t holds
\* device_mutex: the stored one, and the one an update is writing over it.
MacsUnderLock(t, i) ==
    {devices[i].mac_address} \cup {arg[u].mac : u \in Racing(t, i)}

\* C11: the payload wol_send_packet builds for an address m has 102 bytes,
\* six of 0xFF and then m sixteen times; the address wol_wake_device copies
\* with device_mutex held is the mac_address of the device as it is stored
\* at that time, and the payload sent is the one built from that copy.
C11_PayloadFromLockedMac ==
    [][\A t \in Tasks :
        /\ (pc[t] = "body" /\ arg[t].op = "wake" /\ pc'[t] = "wake_send") =>
                loc'[t].mac \in MacsUnderLock(t, loc'[t].i)
        /\ (pc[t] = "wake_send" /\ pc'[t] = "wake_pub") =>
                IsMagicPacket(udp_out', loc[t].mac)]_vars

(***************************************************************************)
(* Properties of the full registry.                                        *)
(***************************************************************************)
\* Task t takes the step of wol_add_device that finds its name nowhere in
\* a list of MAX_DEVICES devices.
AddFindsFull(t) ==
    /\ pc[t] = "body" /\ arg[t].op = "add"
    /\ wol_get_device(arg[t].name) = -1
    /\ device_count = MAX_DEVICES
    /\ StepOf(t)

\* C12: wol_add_device of a new name with MAX_DEVICES devices registered
\* returns ESP_ERR_NO_MEM and leaves devices and device_count as they were;
\* device_count never exceeds MAX_DEVICES.
C12_FullAddRejected ==
    /\ [](device_count <= MAX_DEVICES)
    /\ [][\A t \in Tasks : AddFindsFull(t) =>
            /\ pc'[t] = "done"
            /\ ret'[t] = "ESP_ERR_NO_MEM"
            /\ devices' = devices
            /\ device_count' = device_count]_vars

C12_Witness ==
    \E t \in Tasks :
        /\ pc[t] = "done" /\ arg[t].op = "add"
        /\ ret[t] = "ESP_ERR_NO_MEM"
        /\ arg[t].name = FillName(MAX_DEVICES)
        /\ device_count = MAX_DEVICES
        /\ devices[MAX_DEVICES - 1].name = FillName(MAX_DEVICES - 1)
        /\ devices[0].name = Server1

(***************************************************************************)
(* Properties of the command queue.                                        *)
(***************************************************************************)
\* The step is one of caller t: its place, arguments or result change.
CallerMoved(t) ==
    <<pc[t], arg[t], loc[t], ret[t]>>' # <<pc[t], arg[t], loc[t], ret[t]>>

QueueFull == Len(ping_cmd_queue.items) = PING_QUEUE_SIZE

\* Caller t makes a call that has a command to send while the queue is full.
SendsToFullQueue(t) ==
    /\ Ready(t) /\ CallerMoved(t)
    /\ ping_manager_running /\ QueueFull
    /\ \/ arg'[t].op \in {"ping_remove", "ping_update", "ping_enable"}
       \/ /\ arg'[t].op = "ping_add"
          /\ find_target_by_ip(ping_targets, arg'[t].ip) < 0

\* C13: the command queue never holds more than PING_QUEUE_SIZE commands,
\* and a call that has a command to send while the queue holds
\* PING_QUEUE_SIZE commands and stays full returns ESP_ERR_TIMEOUT (-1 for
\* ping_manager_add_target) and leaves the queue as it was.
C13_QueueBounded ==
    /\ [](Len(ping_cmd_queue.items) <= PING_QUEUE_SIZE)
    /\ [][\A t \in Tasks : SendsToFullQueue(t) =>
            /\ pc'[t] = "done"
            /\ ping_cmd_queue' = ping_cmd_queue
            /\ IF arg'[t].op = "ping_add"
               THEN ret'[t] = "index" /\ loc'[t].i = -1
               ELSE ret'[t] = "ESP_ERR_TIMEOUT"]_vars

C13_Witness ==
    \E t \in Tasks :
        /\ pc[t] = "done" /\ arg[t].op = "ping_remove"
        /\ ret[t] = "ESP_ERR_TIMEOUT"
        /\ QueueFull
        /\ \E p \in PTasks : ptask[p].pc = "wait"

\* The ping task p leaves execute_ping_command and goes on with the queue.
ExecReturns(p) ==
    /\ ptask[p].pc = "exec"
    /\ ptask'[p].pc = "drain"

\* The command is in the queue or in the hands of the ping task.
Pending(queue, task, cmd_type, ip) ==
    \/ \E n \in 1..Len(queue.items) :
            /\ queue.items[n].cmd_type = cmd_type
            /\ queue.items[n].target.ip_address = ip
    \/ \E p \in PTasks :
            /\ task[p].cmd.cmd_type = cmd_type
            /\ task[p].cmd.target.ip_address = ip

\* Caller t gets a failure from a function that sends a command.
SendFailed(t) ==
    /\ CallerMoved(t)
    /\ pc'[t] = "done"
    /\ \/ /\ arg'[t].op \in {"ping_remove", "ping_update", "ping_enable"}
          /\ ret'[t] = "ESP_ERR_TIMEOUT"
       \/ /\ arg'[t].op = "ping_add"
          /\ ping_manager_running
          /\ ret'[t] = "index" /\ loc'[t].i = -1

\* C14: a command whose producer was told of a failure is not in the queue
\* and is never applied; a command whose send succeeded leaves the queue
\* only into execute_ping_command, which applies it to the registry once
\* and forgets it.
C14_FailedNeverAppliedSentOnce ==
    [][/\ \A t \in Tasks : SendFailed(t) =>
            /\ ping_cmd_queue' = ping_cmd_queue
            /\ arg'[t].op = "ping_add" => ~Pending(ping_cmd_queue', ptask', "ADD_TARGET", arg'[t].ip)
       /\ \A p \in PTasks : ExecReturns(p) =>
            /\ ping_targets' = ExecTargets(ping_targets, ptask[p].cmd)
            /\ ptask'[p].cmd = NoCmd]_vars

\* C15: the commands leave the queue in the order they entered it (a send
\* appends, the ping task takes the oldest), each is applied before the
\* next is taken, and the effect of the command applied last is the one
\* that is left: after execute_ping_command of an Enable or Disable of a
\* slot the enabled flag of the slot is the one of the command.
C15_AppliedInOrder ==
    [][\A p \in PTasks :
        /\ (ping_cmd_queue.handle # "NULL" /\ ping_cmd_queue'.handle # "NULL") =>
            LET items == ping_cmd_queue.items
                after == ping_cmd_queue'.items
            IN \/ after = items
               \/ /\ Len(after) = Len(items) + 1
                  /\ SubSeq(after, 1, Len(items)) = items
               \/ /\ items # <<>> /\ after = Tail(items)
                  /\ ptask[p].pc = "drain" /\ ptask'[p].pc = "exec"
                  /\ ptask'[p].cmd = Head(items)
        /\ (/\ ExecReturns(p)
            /\ ptask[p].cmd.cmd_type \in {"ENABLE_TARGET", "DISABLE_TARGET"}
            /\ ValidIndex(ptask[p].cmd.target_index)) =>
                ping_targets'[ptask[p].cmd.target_index].enabled
                    = (ptask[p].cmd.cmd_type = "ENABLE_TARGET")]_vars

\* C16: once a Stop command has been applied (ping_manager_running is
\* false) the ping task starts no probe: it does not go from the queue to
\* the probe pass of that tick, and no session is created.
C16_NoProbeAfterStop ==
    [][\A p \in PTasks :
        (~ping_manager_running /\ ptask[p].pc \in {"drain", "take", "scan"}) =>
            /\ ptask'[p].pc \notin {"scan", "wait"}
            /\ session[p].state = "none" => session'[p].state = "none"]_vars

\* The ping task p creates the session of a probe.
ProbeStarted(p) ==
    /\ session[p].state = "none"
    /\ session'[p].state = "running"

\* execute_ping_command of p applies a command of the given kind to slot k.
Applies(p, cmd_type, k) ==
    /\ ExecReturns(p)
    /\ ping_targets' = ExecTargets(ping_targets, ptask[p].cmd)
    /\ ptask[p].cmd.cmd_type = cmd_type
    /\ ptask[p].cmd.target_index = k

\* C17: a probe is started only for a target whose enabled flag is set;
\* the flag of a registered target that stays registered is raised only by
\* an Enable command applied to its slot; and a Disable command changes
\* nothing of the slot but the flag, so the target stays in the registry
\* with its address and counters and ping_manager_get_target_stats finds it.
C17_DisabledNotProbed ==
    [][/\ \A p \in PTasks : ProbeStarted(p) =>
            /\ ping_targets[session'[p].target].enabled
            /\ Occupied(ping_targets, session'[p].target)
       /\ \A k \in Slots :
            (/\ Occupied(ping_targets, k)
             /\ ~ping_targets[k].enabled
             /\ ping_targets'[k].enabled) =>
                \E p \in PTasks : Applies(p, "ENABLE_TARGET", k)
       /\ \A k \in Slots, p \in PTasks : Applies(p, "DISABLE_TARGET", k) =>
            ping_targets' = [ping_targets EXCEPT ![k].enabled = FALSE]
       /\ \A t \in Tasks :
            (/\ pc[t] = "pstats_body" /\ pc'[t] = "done"
             /\ Occupied(ping_targets, arg[t].target_index)) =>
                ret'[t] = "ESP_OK"]_vars

\* A disabled target with a probe counted is due and is skipped by the
\* pass of the ping task, and its statistics have been read.
C17_Witness ==
    \E k \in Slots, p \in PTasks, t \in Tasks :
        /\ Occupied(ping_targets, k)
        /\ ~ping_targets[k].enabled
        /\ Probes(ping_targets[k]) >= 1
        /\ ptask[p].pc = "scan"
        /\ Due(ping_targets[k], ptask[p].current_time)
        /\ pc[t] = "done" /\ arg[t].op = "ping_stats"
        /\ arg[t].target_index = k /\ ret[t] = "ESP_OK"

\* The commands for a monitored device: the start-up calls, the
\* registration of the address of server1 as a ping target, the commands
\* for server1 from MQTT, the ping task and the result callback.
NextDisable ==
    \/ WolManagerInit("t1")
    \/ PingManagerInit("t1", "status_callback")
    \/ PingAddTarget("t1", IpServer1, 0, 0, 0) /\ FewPending
    \/ PingAddReturn("t1")
    \/ \E command \in Commands : wol_handle_mqtt_command("t1", Server1, command)
    \/ WakeStep("t1")
    \/ SetEnabledBody("t1")
    \/ StatusFormat("t1")
    \/ StatusPub("t1")
    \/ \E p \in PTasks :
        \/ PingTaskStep(p)
        \/ PTScan(p, TRUE)
        \/ SessionStep(p)
        \/ StatusCallbackStep(p)
    \/ StatusUpdateStep
    \/ Tick

SpecDisable == Init /\ [][NextDisable]_vars

(***************************************************************************)
(* Properties of the commands from MQTT.                                   *)
(***************************************************************************)
KnownVerbs == {VerbOn, VerbWake, VerbStatus, VerbEnable, VerbDisable}

\* The step is one of task t in a call made for the given kind of command.
CommandMoved(t, verbs) ==
    /\ CallerMoved(t)
    /\ "command" \in DOMAIN arg'[t]
    /\ arg'[t].command \in verbs

\* C19: a step of wol_handle_mqtt_command for a command other than "on",
\* "wake", "status", "enable", "disable" is the return of
\* ESP_ERR_INVALID_ARG: no packet, no message, the devices and their count
\* as before; and no step made for the "status" command changes a device
\* or the count, or sends a packet.
C19_UnknownVerbRejected ==
    [][\A t \in Tasks :
        /\ CommandMoved(t, Commands \ KnownVerbs) =>
                /\ pc'[t] = "done"
                /\ ret'[t] = "ESP_ERR_INVALID_ARG"
                /\ udp_out' = NoMsg
                /\ mqtt_out' = NoMsg
                /\ devices' = devices
                /\ device_count' = device_count
                /\ device_mutex' = device_mutex
        /\ CommandMoved(t, {VerbStatus}) =>
                /\ udp_out' = NoMsg
                /\ devices' = devices
                /\ device_count' = device_count
                /\ device_mutex' = device_mutex]_vars

\* An unknown command was rejected while devices are registered, and a
\* status command for a registered device has published its message.
C19_Witness ==
    \E t, u \in Tasks :
        /\ pc[t] = "done" /\ arg[t].op = "command"
        /\ arg[t].command = VerbOff
        /\ ret[t] = "ESP_ERR_INVALID_ARG"
        /\ device_count > 0
        /\ pc[u] = "done" /\ arg[u].op = "status"
        /\ ret[u] = "ESP_OK"
        /\ mqtt_out # NoMsg

\* C20: the device a caller got from wol_get_device does not change while
\* the caller holds it: as long as a task is between its wol_get_device
\* and its last read of the device, what it was given stays as it was.
C20_GetGivesSnapshot ==
    [][\A t \in Tasks :
        (pc[t] \in {"status_fmt", "status_pub"} /\ pc'[t] = pc[t]) =>
            devices'[loc[t].i] = devices[loc[t].i]]_vars

\* C18: no probe is started for a device that is registered and disabled:
\* when the ping task creates a session, every registered device with the
\* address of the probed target has its enabled flag set.
C18_DisabledDeviceNotProbed ==
    [][\A p \in PTasks : ProbeStarted(p) =>
        \A i \in Registered :
            StrEq(devices[i].ip_address,
                  ping_targets[session'[p].target].ip_address)
                => devices[i].enabled]_vars

(***************************************************************************)
(* Properties of the results the ping engine gives its callers.            *)
(***************************************************************************)
\* ping_manager_add_target of caller t returns index.
AddReturns(t, index) ==
    /\ CallerMoved(t)
    /\ arg'[t].op = "ping_add"
    /\ pc'[t] = "done"
    /\ ret'[t] = "index"
    /\ loc'[t].i = index

\* C21: when ping_manager_add_target returns an index, the slot of the
\* index holds the address; when it returns -1 the target is not added: no
\* Add command for the address is left in the queue or in the hands of the
\* ping task, to be applied later.
C21_AddReturnsSlotOrNotAdded ==
    [][\A t \in Tasks :
        /\ \A k \in Slots : AddReturns(t, k) =>
                StrEq(ping_targets'[k].ip_address,
                      Strncpy(arg'[t].ip, PING_MAX_IP_LEN - 1))
        /\ AddReturns(t, -1) =>
                ~Pending(ping_cmd_queue', ptask', "ADD_TARGET",
                         Strncpy(arg'[t].ip, PING_MAX_IP_LEN - 1))]_vars

\* C22: ping_manager_remove_target gives ESP_OK only for an index inside
\* the target array: for an index outside 0..PING_MAX_TARGETS-1, where the
\* Remove command cannot be applied, the caller gets an error code.
C22_RemoveReportsFailure ==
    [][\A t \in Tasks :
        (/\ CallerMoved(t)
         /\ arg'[t].op = "ping_remove"
         /\ pc'[t] = "done"
         /\ ~ValidIndex(arg'[t].target_index)) => ret'[t] # "ESP_OK"]_vars

(***************************************************************************)
(* Properties of the order and the locking of the device list.             *)
(***************************************************************************)
\* wol_add_device of task t appends a new entry.
Appends(t) ==
    /\ pc[t] = "body" /\ arg[t].op = "add"
    /\ pc'[t] = "add_ping"

\* wol_remove_device of task t finds the name and removes an entry.
Removes(t) ==
    /\ pc[t] = "body" /\ arg[t].op = "remove"
    /\ pc'[t] = "rm_ping"

\* C23: wol_add_device with a new name puts the entry behind the entries
\* there are, which stay as they are, so the list is in insertion order
\* and one longer; wol_remove_device takes one entry out and leaves the
\* others in their order; and after the removal no entry of the list has
\* the name that was removed.
C23_InsertionOrderKept ==
    [][\A t \in Tasks :
        /\ Appends(t) =>
                /\ device_count' = device_count + 1
                /\ \A j \in Registered : devices'[j] = devices[j]
                /\ devices'[device_count].name
                        = Strncpy(arg[t].name, NAME_SIZE - 1)
        /\ Removes(t) =>
                /\ device_count' = device_count - 1
                /\ \E i \in Registered :
                        \A j \in 0..(device_count' - 1) :
                            devices'[j] = IF j < i THEN devices[j]
                                          ELSE devices[j + 1]
                /\ FindDevice(devices', device_count', arg[t].name) = -1]_vars

\* C24: a call whose wait for ping_mutex expires changes nothing and says
\* so: ping_manager_get_target_stats returns ESP_ERR_NOT_FOUND only when
\* the slot of the index is empty, and a call that ends without having
\* held the mutex leaves the targets as they are.
C24_LockTimeoutReported ==
    [][\A t \in Tasks :
        (/\ CallerMoved(t)
         /\ arg'[t].op = "ping_stats"
         /\ pc'[t] = "done") =>
            /\ ping_targets' = ping_targets
            /\ ret'[t] = "ESP_ERR_NOT_FOUND" =>
                    ~Occupied(ping_targets, arg'[t].target_index)]_vars

\* Caller t starts a call that sends a command.
StartsSend(t) ==
    /\ Ready(t) /\ CallerMoved(t)
    /\ arg'[t].op \in {"ping_add", "ping_remove", "ping_update", "ping_enable"}

\* C25: when ping_manager_init returns a failure the engine is not running
\* and no ping task is alive; and while the engine is not running every
\* call that would send a command returns an error at once (-1 from
\* ping_manager_add_target) and sends nothing.
C25_FailedInitLeavesEngineOff ==
    [][\A t \in Tasks :
        /\ (/\ CallerMoved(t)
            /\ arg'[t].op = "ping_init"
            /\ ret'[t] = "ESP_FAIL") =>
                /\ ~ping_manager_running'
                /\ \A p \in PTasks : ptask'[p].pc \in {"none", "exited"}
        /\ (StartsSend(t) /\ ~ping_manager_running) =>
                /\ pc'[t] = "done"
                /\ ret'[t] \in {"ESP_ERR_INVALID_STATE", "index"}
                /\ ret'[t] = "index" => loc'[t].i = -1
                /\ ping_cmd_queue' = ping_cmd_queue
                /\ ping_targets' = ping_targets]_vars

\* After a start that failed at the creation of the task, a command was
\* refused.
C25_Witness ==
    \E t \in Tasks :
        /\ ping_mutex = "deleted"
        /\ ping_cmd_queue.handle = "deleted"
        /\ ~ping_manager_running
        /\ pc[t] = "done"
        /\ arg[t].op = "ping_remove"
        /\ ret[t] = "ESP_ERR_INVALID_STATE"

\* ping_manager_deinit has returned (or the engine was never started): the
\* flag is clear, the queue and the mutex are gone.
EngineOff ==
    /\ ~ping_manager_running
    /\ ping_cmd_queue.handle = "NULL"
    /\ ping_mutex = "NULL"

\* C26: once ping_manager_deinit has returned the ping task does nothing
\* more: from then until the engine is started again no ping task makes a
\* step other than its end, no probe is started and the target array is
\* not written.
C26_NoTaskAfterDeinit ==
    [][EngineOff =>
        /\ \A p \in PTasks :
            \/ ptask'[p] = ptask[p]
            \/ ptask'[p].pc = "exited"
            \/ ptask[p].pc \in {"none", "exited"}
        /\ \A p \in PTasks : ~ProbeStarted(p)
        /\ ping_targets' = ping_targets]_vars

\* The places at which the next step of a task reads or writes devices or
\* device_count.
TouchesDevices(t) ==
    pc[t] \in {"body", "add_upd_ip", "add_upd_mac", "add_upd_desc",
               "upd_pub", "status_fmt", "status_pub"}

\* C27: a task that is about to read or write the devices array or
\* device_count holds device_mutex.
C27_DevicesUnderMutex ==
    \A t \in Tasks : TouchesDevices(t) => device_mutex = t

\* The step is one of the scheduler: a ping task moves, or the session of
\* its probe does, or the result callback applies a probe result.
SchedulerMoved ==
    \/ \E p \in PTasks : ptask'[p] # ptask[p] \/ session'[p] # session[p]
    \/ CallerMoved(SessionTask)

\* C28: the ping target array and the device array have one writer: once
\* the device list is loaded, every step that changes ping_targets,
\* devices or device_count is a step of the scheduler applying a command
\* or a probe result, never a step of another caller.
C28_SingleWriter ==
    [][(/\ initialized
        /\ \/ ping_targets' # ping_targets
           \/ devices' # devices
           \/ device_count' # device_count) => SchedulerMoved]_vars

(***************************************************************************)
(* Properties of the tick of the ping task.                                *)
(***************************************************************************)
\* C29: a probe is started only for a slot that is occupied and enabled
\* and whose last probe lies interval_ms or more back, whatever 32-bit
\* value interval_ms has: at the start of a probe the milliseconds since
\* last_ping_time are at least interval_ms.
C29_ProbedOnlyWhenDue ==
    [][\A p \in PTasks : ProbeStarted(p) =>
        /\ Occupied(ping_targets, session'[p].target)
        /\ ping_targets[session'[p].target].enabled
        /\ ptask[p].current_time
                >= ping_targets[session'[p].target].last_ping_time
        /\ (ptask[p].current_time
                - ping_targets[session'[p].target].last_ping_time) \div 1000
                >= ping_targets[session'[p].target].interval_ms]_vars

\* C30: within a tick the drain of the commands comes before the probe
\* pass: the ping task goes from the drain to the probe pass only with the
\* queue empty, and a Remove or Disable command it has taken from the
\* queue has been applied when the task turns back to the queue, so the
\* slot is empty, or not enabled, when the probe pass of that tick reads it.
C30_DrainBeforeProbePass ==
    [][\A p \in PTasks :
        /\ (ptask[p].pc = "drain" /\ ptask'[p].pc \in {"take", "scan"}) =>
                ping_cmd_queue.items = <<>>
        /\ ptask'[p].pc = "scan" => ptask[p].pc \in {"take", "scan", "wait"}
        /\ (/\ ExecReturns(p)
            /\ ptask[p].cmd.cmd_type \in {"REMOVE_TARGET", "DISABLE_TARGET"}
            /\ ValidIndex(ptask[p].cmd.target_index)
            /\ Occupied(ping_targets, ptask[p].cmd.target_index)) =>
                IF ptask[p].cmd.cmd_type = "REMOVE_TARGET"
                THEN ~Occupied(ping_targets', ptask[p].cmd.target_index)
                ELSE ~ping_targets'[ptask[p].cmd.target_index].enabled]_vars

(***************************************************************************)
(* Properties of probes that end badly.                                    *)
(***************************************************************************)
\* The second address is an enabled target of the running engine with n
\* finished probes, no probe of it is in flight, and its next probe lies
\* within the bounds of the model.
TargetAhead(n) ==
    /\ ping_manager_running
    /\ \E k \in Slots :
        /\ ping_targets[k].ip_address = IpOther
        /\ ping_targets[k].enabled
        /\ Probes(ping_targets[k]) = n
        /\ \A p \in PTasks : ptask[p].pc = "wait" => ptask[p].i # k
        /\ ping_targets[k].last_ping_time
                + ping_targets[k].interval_ms * 1000 <= Horizon

TargetProbed(n) ==
    \E k \in Slots :
        /\ ping_targets[k].ip_address = IpOther
        /\ Probes(ping_targets[k]) > n

\* C31: while the engine runs, a target that stays registered and enabled
\* is probed again, whatever happens to the probes of the other targets:
\* a session that cannot be started and a probe without reply neither end
\* the loop of the ping task nor keep the task from the next target.
C31_TargetProbedAgain ==
    \A n \in 0..(MaxProbes - 1) : TargetAhead(n) ~> TargetProbed(n)

\* The second address has been probed as often as the bounds allow, in
\* the slot behind a target whose session could not be started for the
\* pass of one tick and got no reply in another.
C31_Witness ==
    \E a, k \in Slots :
        /\ a < k
        /\ ping_targets[a].ip_address = IpServer1
        /\ ping_targets[a].enabled
        /\ ping_targets[a].fail_count = 1
        /\ ping_targets[k].ip_address = IpOther
        /\ Probes(ping_targets[k]) = MaxProbes

\* The session of p ends a cycle in which no reply arrived.
EndsWithoutReply(p) ==
    /\ ResultApplied(p)
    /\ session[p].received = 0

\* C32: a probe cycle that ends with no reply is recorded as data: the
\* fail_count of the probed slot grows by exactly 1, its success_count and
\* every other slot stay as they are, the registered callback is called
\* with the address, success = false and response_time = 0, and it is
\* called once: only the end of a cycle leads to a call.  The ping task
\* and the running flag are left alone.
C32_NoReplyIsData ==
    [][\A p \in PTasks :
        /\ EndsWithoutReply(p) =>
            /\ ping_targets' = [ping_targets EXCEPT
                    ![session[p].target].fail_count = @ + 1]
            /\ result_callback # "NULL" =>
                    /\ session'[p].state = "callback"
                    /\ session'[p].result =
                            <<ping_targets[session[p].target].ip_address,
                              FALSE, 0>>
            /\ ptask' = ptask
            /\ ping_manager_running' = ping_manager_running
        /\ (session[p].state # "callback" /\ session'[p].state = "callback")
                => ResultApplied(p)]_vars

\* The callback has been called for a cycle without reply of a target
\* that had a reply before.
C32_Witness ==
    \E p \in PTasks :
        /\ session[p].state = "callback"
        /\ session[p].received = 0
        /\ session[p].result = <<IpOther, FALSE, 0>>
        /\ ping_targets[session[p].target].fail_count = 1
        /\ ping_targets[session[p].target].success_count = 1
        /\ ping_manager_running

(***************************************************************************)
(* Properties of the status notifications.                                 *)
(***************************************************************************)
\* C33: device_mutex is not held while a status change is handed to
\* mqtt_publish: the task that is about to publish from
\* wol_update_device_status has given the mutex.
C33_NoLockDuringPublish ==
    \A t \in Callers : pc[t] = "upd_pub" => device_mutex # t

(***************************************************************************)
(* Properties of the slots of the ping target array.                       *)
(***************************************************************************)
\* C34: no two occupied slots of the ping target array hold the same
\* address, however the calls of ping_manager_add_target and the steps of
\* the ping task interleave.
C34_AddressesUnique ==
    \A j, k \in Slots :
        (/\ Occupied(ping_targets, j)
         /\ Occupied(ping_targets, k)
         /\ ping_targets[j].ip_address = ping_targets[k].ip_address) => j = k

\* C35: a Remove, Update, Enable or Disable command for target_index i
\* changes only the target that was in slot i when the command was queued.
\* Where every such command is queued for slot 0 while the slot holds the
\* address of server1: the command that changes the array when it is
\* applied finds that address in slot 0, never a target that an Add has
\* put there since.
C35_CommandHitsItsTarget ==
    [][\A p \in PTasks :
        (/\ ExecReturns(p)
         /\ ptask[p].cmd.cmd_type \in {"REMOVE_TARGET", "UPDATE_TARGET",
                                        "ENABLE_TARGET", "DISABLE_TARGET"}
         /\ ping_targets' # ping_targets) =>
            ping_targets[ptask[p].cmd.target_index].ip_address
                \in {IpServer1, <<>>}]_vars

(***************************************************************************)
(* Properties of the update of an existing device.                         *)
(***************************************************************************)
\* C36: wol_add_device with the name of an existing device changes that
\* device's entry only: every write of its update branch leaves the
\* ip_address, mac_address and description of every registered device
\* with another name as they are, whatever wol_remove_device and
\* wol_add_device calls of other tasks run in between.
C36_UpdateTouchesNamedDeviceOnly ==
    [][\A t \in Tasks :
        (/\ pc[t] \in {"add_upd_ip", "add_upd_mac", "add_upd_desc"}
         /\ pc'[t] # pc[t]) =>
            \A j \in Registered :
                devices[j].name # arg[t].name =>
                    /\ devices'[j].ip_address = devices[j].ip_address
                    /\ devices'[j].mac_address = devices[j].mac_address
                    /\ devices'[j].description = devices[j].description]_vars

(***************************************************************************)
(* Properties of probes that cannot be made.                               *)
(***************************************************************************)
\* perform_single_ping of p returns for the due slot k without a session:
\* the address does not parse, or the session is not created or started.
ProbeNotMade(p, k) ==
    /\ ptask[p].pc = "scan"
    /\ ptask'[p].pc = "scan"
    /\ k = NextProbed(ping_targets, ptask[p].i, ptask[p].current_time)
    /\ ptask'[p].i = k + 1

\* C37: every probe issued for a due target ends with a recorded result,
\* also when the probe cannot be made: when perform_single_ping returns,
\* one of the two counters of the target has grown by 1 and last_ping_time
\* is the time of the attempt, so that the target is not due again at once.
C37_EveryProbeRecorded ==
    [][\A p \in PTasks :
        /\ \A k \in Slots : ProbeNotMade(p, k) =>
                /\ Probes(ping_targets'[k]) = Probes(ping_targets[k]) + 1
                /\ ~Due(ping_targets'[k], ptask[p].current_time)
        /\ ProbeTimeWritten(p) =>
                ping_targets'[ptask[p].i].last_ping_time = clock]_vars

(***************************************************************************)
(* Properties of a wake-up whose packet is not sent.                       *)
(***************************************************************************)
\* wol_send_packet of task t fails: no packet leaves.
SendFails(t) ==
    /\ pc[t] = "wake_send"
    /\ pc'[t] # pc[t]
    /\ udp_out' = NoMsg

\* C38: when the packet send of wol_wake_device fails, the call returns
\* the error of the transport and publishes nothing, and no device entry
\* is written: the status stays Waking.  The wake_sent message is published
\* after a packet that was sent only, and an entry that keeps its name
\* leaves Waking only when wol_update_device_status applies a result.
C38_FailedSendLeavesWaking ==
    [][/\ \A t \in Tasks : SendFails(t) =>
            /\ pc'[t] = "done"
            /\ ret'[t] = "ESP_FAIL"
            /\ mqtt_out' = NoMsg
            /\ devices' = devices
       /\ \A t \in Tasks :
            (pc[t] # "wake_pub" /\ pc'[t] = "wake_pub") => udp_out' # NoMsg
       /\ \A j \in Registered :
            (/\ devices[j].status = "WAKING"
             /\ devices'[j].status # "WAKING"
             /\ devices'[j].name = devices[j].name) =>
                \E t \in Tasks :
                    /\ pc[t] = "body" /\ arg[t].op = "update"
                    /\ pc'[t] # pc[t]]_vars

\* The send of a wake-up has failed: the call has returned ESP_FAIL and
\* the device, not probed since, is in status Waking with no task left in
\* wol_wake_device that could publish.
C38_Witness ==
    \E t \in Tasks :
        /\ pc[t] = "done"
        /\ arg[t].op = "wake"
        /\ ret[t] = "ESP_FAIL"
        /\ wol_get_device(arg[t].name) # -1
        /\ devices[wol_get_device(arg[t].name)].status = "WAKING"
        /\ mqtt_out = NoMsg
        /\ \A u \in Tasks : pc[u] \notin {"wake_send", "wake_pub"}

(***************************************************************************)
(* Properties of the result handed to the callback.                        *)
(***************************************************************************)
\* C39: at the end of a probe cycle the registered callback gets success =
\* true exactly when at least one reply arrived in the cycle, and with
\* success = true the response_time it gets is the elapsed time of a reply
\* of the cycle, not the 0 a later timeout left behind.
C39_ResultTellsReply ==
    [][\A p \in PTasks :
        (ResultApplied(p) /\ result_callback # "NULL") =>
            /\ session'[p].result[2] = (session[p].received > 0)
            /\ session[p].received > 0 =>
                    session'[p].result[3] \in ReplyTimes]_vars

(***************************************************************************)
(* Properties of repeated initialization.                                  *)
(***************************************************************************)
\* Task t calls the function op, from its first step to its return.
Calls(t, op) ==
    /\ Ready(t)
    /\ CallerMoved(t)
    /\ arg'[t].op = op

\* C40: initialization is idempotent.  ping_manager_init called while the
\* engine is running and wol_manager_init called when the registry is
\* initialized return ESP_OK and change nothing: targets, counters,
\* callback, queue, mutexes, devices and their statuses are as before, and
\* no ping task is created.
C40_InitIdempotent ==
    [][\A t \in Tasks :
        /\ (Calls(t, "ping_init") /\ ping_manager_running) =>
                /\ pc'[t] = "done"
                /\ ret'[t] = "ESP_OK"
                /\ pingvars' = pingvars
                /\ <<initialized, device_mutex, devices, device_count>>'
                        = <<initialized, device_mutex, devices, device_count>>
        /\ (Calls(t, "init") /\ initialized) =>
                /\ pc'[t] = "done"
                /\ ret'[t] = "ESP_OK"
                /\ pingvars' = pingvars
                /\ <<initialized, device_mutex, devices, device_count>>'
                        = <<initialized, device_mutex, devices, device_count>>]_vars

\* ping_manager_init has returned ESP_OK to a task that called it with a
\* probed target in the array and a measured device in the registry.
C40_Witness ==
    \E t \in Tasks, k \in Slots :
        /\ pc[t] = "done"
        /\ arg[t].op = "ping_init"
        /\ ret[t] = "ESP_OK"
        /\ ping_manager_running
        /\ Occupied(ping_targets, k)
        /\ Probes(ping_targets[k]) >= 1
        /\ initialized
        /\ Measured

====
